---- MODULE Spec2Model ----
(***************************************************************************)
(* Load Monitoring & Alerting Engine of the Load-Management-System         *)
(* repository.  Three variants are modelled:                               *)
(*   app.py    - Streamlit variant: script (UI) thread + data thread       *)
(*   loadf1.py - Tk variant: Tk main loop + data-collection threads        *)
(*   load6.py  - Tk variant: root.after() chain of fetch_data callbacks    *)
(* Time is counted in units of app.py's UPDATE_INTERVAL (0.5 s).            *)
(* Energy is counted in W x UPDATE_INTERVAL, so that one tick adds exactly *)
(* its power reading: (power/1000)*(UPDATE_INTERVAL/3600) kWh is           *)
(* power / UNITS_PER_KWH.                                                  *)
(***************************************************************************)
EXTENDS Integers, Sequences, FiniteSets, TLC

\* ------------------------------------------------------------------------
\* Program constants
\* ------------------------------------------------------------------------
MAX_DATA_POINTS == 200
ALERT_LIMIT == 200
UNITS_PER_SECOND == 2
UNITS_PER_KWH == 1000 * 3600 * UNITS_PER_SECOND
LOW_VOLTAGE_LIMIT == 200
INSTABILITY_WINDOW == 10
INSTABILITY_STD == 15
BASE_VOLTAGE == 230
BACKGROUND_PF == 92

\* ------------------------------------------------------------------------
\* Bounds of the model
\* ------------------------------------------------------------------------
MaxTicks == 2
MaxOps == 2
MaxClock == 4
ScenarioSeconds == 30
MaxThreads == 2
MaxPending == 2
MaxCommands == 3
MaxFailures == 1
MaxSettingsOps == 2

LoadOrder == <<"Lighting", "HVAC", "Computers", "Industrial">>
Loads == {LoadOrder[i] : i \in 1..Len(LoadOrder)}

DefaultProfiles ==
    [l \in Loads |->
        CASE l = "Lighting"   -> [active |-> TRUE,  current |-> 50,  power_factor |-> 90]
          [] l = "HVAC"       -> [active |-> FALSE, current |-> 200, power_factor |-> 85]
          [] l = "Computers"  -> [active |-> TRUE,  current |-> 80,  power_factor |-> 95]
          [] l = "Industrial" -> [active |-> FALSE, current |-> 400, power_factor |-> 80]]


\* Outcomes of one sound / voice playback attempt inside trigger_alert:
\* it works, the module cannot be imported, or the playback itself raises.
DeliveryOutcomes == {"ok", "import_error", "runtime_error"}

\* Random draws of simulate_realistic_data, by the cases they can produce:
\* a normal jitter, or the 1% fluctuation branch pushing the voltage up/down.
VoltageCases == { [jitter |-> 0,  spike |-> 0,   fluct |-> FALSE],
                  [jitter |-> 0,  spike |-> 30,  fluct |-> TRUE],
                  [jitter |-> -5, spike |-> -30, fluct |-> TRUE] }
CurrentSpikes == {0, 20}
BackgroundCurrents == {5}

\* alert cooldowns the slider is set to, in seconds
ScenarioCooldowns == {5, 10}

VARIABLES
    \* ---- app.py -------------------------------------------------------
    monitoring,          \* st.session_state.monitoring
    running,             \* self.running
    stop_event,          \* self.stop_event is set
    data_thread,         \* position of the data thread ("none" = no thread)
    loc,                 \* locals of the tick in progress on the data thread
    load_profiles,       \* self.load_profiles
    voltage_data, current_data, power_data, energy_data,
    energy_consumption,
    latest_data,         \* st.session_state.latest_data
    data_update_counter, \* st.session_state.data_update_counter
    alerts,              \* st.session_state.alerts
    last_alert_time,     \* self.last_alert_time
    alert_cooldown,
    voltage_threshold, current_threshold, power_threshold, energy_budget,
    logging_enabled, alert_sounds, voice_alerts,
    tariff_rates,        \* self.tariff_rates, in hundredths of a rupee per kWh
    now,                 \* wall clock, in units of UPDATE_INTERVAL
    ui,                  \* position and locals of the UI (script) thread
    view,                \* what the UI rendered last
    nticks, nops,        \* ticks begun / UI handlers run (model bounds)
    \* ---- which of the three programs is running ------------------------
    engine,
    \* ---- loadf1.py ------------------------------------------------------
    f1,                  \* the LoadManagementSystem object and its threads
    \* ---- load6.py -------------------------------------------------------
    l6,                  \* the module globals and Tk's timer queue
    \* ---- the file system (app.py and loadf1.py) --------------------------
    config_file,         \* CONFIG_FILE: whether it exists, and its text
    \* ---- app.py: the login page --------------------------------------------
    session,             \* authenticated, and st.session_state's login fields
    \* ---- load17.py, load18(ieee_14_bus).py ---------------------------------
    l17                  \* the LoadMonitoringSystem object and Tk's timer queue

appVars == <<monitoring, running, stop_event, data_thread, loc, load_profiles,
             voltage_data, current_data, power_data, energy_data,
             energy_consumption, latest_data, data_update_counter, alerts,
             last_alert_time, alert_cooldown, voltage_threshold,
             current_threshold, power_threshold, energy_budget,
             logging_enabled, alert_sounds, voice_alerts, tariff_rates, now,
             ui, view, nticks, nops>>

vars == <<appVars, engine, f1, l6, config_file, session, l17>>

\* ------------------------------------------------------------------------
\* Helpers
\* ------------------------------------------------------------------------
Max(a, b) == IF a >= b THEN a ELSE b
Min(a, b) == IF a <= b THEN a ELSE b
Last(s) == s[Len(s)]
Fill(v, n) == [i \in 1..n |-> v]

\* collections.deque(maxlen=MAX_DATA_POINTS).append
DequeAppend(q, v) ==
    LET a == Append(q, v)
    IN  IF Len(a) > MAX_DATA_POINTS THEN Tail(a) ELSE a

Entry(t, level, kind, n) == [t |-> t, level |-> level, kind |-> kind, n |-> n]

\* log_alert: append, then keep the last 200
log_alert(hist, e) ==
    LET a == Append(hist, e)
    IN  IF Len(a) > ALERT_LIMIT
        THEN SubSeq(a, Len(a) - ALERT_LIMIT + 1, Len(a))
        ELSE a

\* log_alert_safe: the same under thread_lock (only the data thread takes it)
log_alert_safe(hist, e) == log_alert(hist, e)

\* ------------------------------------------------------------------------
\* Alert evaluator (app.py)
\* ------------------------------------------------------------------------
\* a should_trigger_alert that asks for more than the cooldown to have passed
should_trigger_alert_strict(last, kind, t) ==
    IF kind \notin DOMAIN last
    THEN [fire |-> TRUE,
          last |-> [k \in DOMAIN last \cup {kind} |-> IF k = kind THEN t ELSE last[k]]]
    ELSE IF t - last[kind] > alert_cooldown * UNITS_PER_SECOND
         THEN [fire |-> TRUE, last |-> [last EXCEPT ![kind] = t]]
         ELSE [fire |-> FALSE, last |-> last]

\* a should_trigger_alert that holds a kind back until the cooldown has
\* passed since the start of the clock, and only then begins its entry
should_trigger_alert_from_start(last, kind, t) ==
    IF t - (IF kind \in DOMAIN last THEN last[kind] ELSE 0)
          >= alert_cooldown * UNITS_PER_SECOND
    THEN [fire |-> TRUE,
          last |-> [k \in DOMAIN last \cup {kind} |-> IF k = kind THEN t ELSE last[k]]]
    ELSE [fire |-> FALSE, last |-> last]

\* should_trigger_alert: [fire, last] for a kind at time t
should_trigger_alert(last, kind, t) ==
    IF kind \notin DOMAIN last
    THEN [fire |-> TRUE,
          last |-> [k \in DOMAIN last \cup {kind} |-> IF k = kind THEN t ELSE last[k]]]
    ELSE IF t - last[kind] >= alert_cooldown * UNITS_PER_SECOND
         THEN [fire |-> TRUE, last |-> [last EXCEPT ![kind] = t]]
         ELSE [fire |-> FALSE, last |-> last]

\* trigger_alert raises iff a playback that is enabled fails with anything
\* but ImportError (the only exception it catches)
trigger_alert_raises(outcome) ==
    (alert_sounds \/ voice_alerts) /\ outcome = "runtime_error"

\* One rule of check_alerts.  st = [last, log, raised]; once an exception has
\* been raised the rest of check_alerts is skipped.
Rule(st, cond, kind, level, t, outcome) ==
    IF st.raised \/ ~cond THEN st
    ELSE LET r == should_trigger_alert(st.last, kind, t)
         IN  IF r.fire
             THEN [last   |-> r.last,
                   log    |-> log_alert_safe(st.log, Entry(t, level, kind, 0)),
                   raised |-> trigger_alert_raises(outcome)]
             ELSE st

\* budget_usage >= pct, with budget_usage = energy/budget*100 if budget > 0 else 0
BudgetUsageAtLeast(pct) ==
    /\ energy_budget > 0
    /\ energy_consumption \div (pct * (UNITS_PER_KWH \div 100)) >= energy_budget

SumSeq(s) ==
    LET F[i \in 0..Len(s)] == IF i = 0 THEN 0 ELSE F[i - 1] + s[i]
    IN  F[Len(s)]

\* pandas Series.std() (sample standard deviation) of s exceeds INSTABILITY_STD
StdExceeds(s) ==
    LET n  == Len(s)
        s1 == SumSeq(s)
        s2 == SumSeq([i \in 1..n |-> s[i] * s[i]])
    IN  n > 1 /\ n * s2 - s1 * s1 > INSTABILITY_STD * INSTABILITY_STD * n * (n - 1)

VoltageUnstable ==
    /\ Len(voltage_data) >= INSTABILITY_WINDOW
    /\ StdExceeds(SubSeq(voltage_data, Len(voltage_data) - INSTABILITY_WINDOW + 1,
                         Len(voltage_data)))

\* conditions whose high-voltage rule already fires at the threshold
RuleCond_inclusive(kind, data) ==
    CASE kind = "high_voltage"  -> data.voltage >= voltage_threshold
      [] kind = "low_voltage"   -> /\ ~(data.voltage >= voltage_threshold)
                                   /\ data.voltage < LOW_VOLTAGE_LIMIT
      [] kind = "high_current"  -> data.current > current_threshold
      [] kind = "high_power"    -> data.power > power_threshold
      [] kind = "budget_exceeded" -> BudgetUsageAtLeast(100)
      [] kind = "budget_warning"  -> ~BudgetUsageAtLeast(100) /\ BudgetUsageAtLeast(90)
      [] kind = "voltage_instability" -> VoltageUnstable

\* the condition under which check_alerts considers each kind
RuleCond(kind, data) ==
    CASE kind = "high_voltage"  -> data.voltage > voltage_threshold
      [] kind = "low_voltage"   -> /\ ~(data.voltage > voltage_threshold)
                                   /\ data.voltage < LOW_VOLTAGE_LIMIT
      [] kind = "high_current"  -> data.current > current_threshold
      [] kind = "high_power"    -> data.power > power_threshold
      [] kind = "budget_exceeded" -> BudgetUsageAtLeast(100)
      [] kind = "budget_warning"  -> ~BudgetUsageAtLeast(100) /\ BudgetUsageAtLeast(90)
      [] kind = "voltage_instability" -> VoltageUnstable

Severity(kind) == IF kind = "budget_exceeded" THEN "error" ELSE "warning"

\* the order in which check_alerts goes through the kinds
AlertKinds == {"high_voltage", "low_voltage", "high_current", "high_power",
               "budget_exceeded", "budget_warning", "voltage_instability"}

RuleOrder == <<"high_voltage", "low_voltage", "high_current", "high_power",
               "budget_exceeded", "budget_warning", "voltage_instability">>

\* check_alerts(data) at time t: the resulting [last, log, raised]
check_alerts(data, t, outcome) ==
    LET s0 == [last |-> last_alert_time, log |-> alerts, raised |-> FALSE]
        F[i \in 0..Len(RuleOrder)] ==
            IF i = 0 THEN s0
            ELSE Rule(F[i - 1], RuleCond(RuleOrder[i], data), RuleOrder[i],
                      Severity(RuleOrder[i]), t, outcome)
    IN  F[Len(RuleOrder)]

\* ------------------------------------------------------------------------
\* CONFIG_FILE and its JSON text
\* ------------------------------------------------------------------------
\* self.tariff_rates as __init__ sets it (5.75 / 3.50 / 4.25 Rs./kWh)
DefaultTariff == [peak |-> 575, off_peak |-> 350, shoulder |-> 425]

NoMembers == [k \in {} |-> 0]

\* no CONFIG_FILE in the working directory
NoFile == [exists |-> FALSE, complete |-> FALSE, members |-> NoMembers]

\* json.dump(config, f): the members of the object, key by key; a document
\* is complete once its closing brace has been written
json_dump(config) == [complete |-> TRUE, members |-> config]

\* what  with open(CONFIG_FILE, 'w') as f: json.dump(config, f)  leaves on
\* disk: the document, the old file when open() raises, or a truncated
\* document when the write raises after open() has emptied the file
WriteOutcomes == {"ok", "open_failed", "write_failed"}

write_config(file, config, outcome) ==
    CASE outcome = "ok" ->
             [exists |-> TRUE, complete |-> json_dump(config).complete,
              members |-> json_dump(config).members]
      [] outcome = "open_failed" -> file
      [] outcome = "write_failed" ->
             [exists |-> TRUE, complete |-> FALSE, members |-> NoMembers]

\* json.load(f) raises on a document that is not a complete JSON object
json_load_raises(file) == ~file.complete

\* config.get(key, default)
config_get(config, key, default) ==
    IF key \in DOMAIN config THEN config[key] ELSE default

\* ------------------------------------------------------------------------
\* app.py: initial state (after LoadManagementSystem.__init__, no config file)
\* ------------------------------------------------------------------------
\* ------------------------------------------------------------------------
\* load17.py, load18(ieee_14_bus).py: the object after construction
\* ------------------------------------------------------------------------
\* load_ieee_data: the dataset (current in tenths of an ampere)
IEEE_DATA ==
    << [voltage |-> 240, current |-> 50, power |-> 1200],
       [voltage |-> 230, current |-> 48, power |-> 1104],
       [voltage |-> 220, current |-> 52, power |-> 1144],
       [voltage |-> 250, current |-> 55, power |-> 1375],
       [voltage |-> 230, current |-> 42, power |-> 966],
       [voltage |-> 240, current |-> 45, power |-> 1080],
       [voltage |-> 260, current |-> 60, power |-> 1560] >>

\* ieee_data and data_log hold the records by their place in the dataset;
\* open: the records whose alert dialog is on the screen, innermost last;
\* pending: the root.after(1000, ...) callbacks not yet run
L17Init ==
    [running |-> FALSE, start_button |-> TRUE, stop_button |-> FALSE,
     ieee_data |-> [i \in 1..Len(IEEE_DATA) |-> i],
     data_log |-> << >>, shown |-> << >>, checked |-> << >>,
     open |-> << >>, pending |-> 0, nops |-> 0]

\* _init_session_state and __init__: nobody logged in, no failed attempt
\* (returned: what the last call of authenticate returned; calls: how many
\* calls there were)
FreshSession == [authenticated |-> FALSE, login_attempts |-> 0,
                 locked_out |-> FALSE, lockout_time |-> 0,
                 returned |-> FALSE, calls |-> 0]
\* after authenticate("admin", "password"): the main interface is shown
LoggedIn == [FreshSession EXCEPT !.authenticated = TRUE, !.returned = TRUE, !.calls = 1]

NoData == [voltage |-> 0, current |-> 0, power |-> 0]
IdleLoc == [i |-> 0, vvar |-> 0, tc |-> 0, tp |-> 0, seen |-> {}, torn |-> FALSE,
            rare |-> FALSE,
            data |-> NoData, e |-> 0, row |-> "none"]
IdleUi == [pc |-> "idle", i |-> 0, count |-> 0, before |-> {}]

Snapshot ==
    [latest |-> latest_data, energy |-> energy_consumption,
     v |-> Last(voltage_data), c |-> Last(current_data),
     p |-> Last(power_data), e |-> Last(energy_data)]

AppInit ==
    /\ monitoring = FALSE
    /\ running = FALSE
    /\ stop_event = FALSE
    /\ data_thread = "none"
    /\ loc = IdleLoc
    /\ load_profiles = DefaultProfiles
    /\ voltage_data = Fill(220, MAX_DATA_POINTS)
    /\ current_data = Fill(50, MAX_DATA_POINTS)
    /\ power_data = Fill(11000, MAX_DATA_POINTS)
    /\ energy_data = Fill(0, MAX_DATA_POINTS)
    /\ energy_consumption = 0
    /\ latest_data = [voltage |-> 220, current |-> 50, power |-> 11000]
    /\ data_update_counter = 0
    /\ alerts = << >>
    /\ last_alert_time = [k \in {} |-> 0]
    /\ alert_cooldown = 10
    /\ voltage_threshold = 250
    /\ current_threshold = 150
    /\ power_threshold = 30000
    /\ energy_budget = 1000
    /\ logging_enabled = TRUE
    /\ alert_sounds = TRUE
    /\ voice_alerts = FALSE
    /\ tariff_rates = DefaultTariff
    /\ now = 0
    /\ ui = IdleUi
    /\ view = [latest |-> [voltage |-> 220, current |-> 50, power |-> 11000],
               energy |-> 0, v |-> 220, c |-> 50, p |-> 11000, e |-> 0]
    /\ nticks = 0
    /\ nops = 0

configVars == <<alert_cooldown, voltage_threshold, current_threshold,
                power_threshold, energy_budget, logging_enabled, alert_sounds,
                voice_alerts, tariff_rates>>
bufferVars == <<voltage_data, current_data, power_data, energy_data>>
flagVars == <<monitoring, running, stop_event>>

\* ------------------------------------------------------------------------
\* app.py: the data thread (_data_collection_loop_wrapper, data_collection_loop)
\* ------------------------------------------------------------------------
TickSteps == {"sim", "append", "energy_read", "energy_write", "publish", "log",
              "alerts"}
ThreadAlive == data_thread \notin {"none", "dead"}

\* while self.running and not self.stop_event.is_set():
ThreadWhile ==
    /\ data_thread = "while"
    /\ data_thread' = IF running /\ ~stop_event THEN "ifmon" ELSE "exited"
    /\ UNCHANGED <<flagVars, loc, load_profiles, bufferVars, energy_consumption,
                   latest_data, data_update_counter, alerts, last_alert_time,
                   configVars, now, ui, view, nticks, nops>>

\* if st.session_state.monitoring: (false) -> time.sleep
ThreadSkip ==
    /\ data_thread = "ifmon"
    /\ ~monitoring
    /\ data_thread' = "sleep"
    /\ UNCHANGED <<flagVars, loc, load_profiles, bufferVars, energy_consumption,
                   latest_data, data_update_counter, alerts, last_alert_time,
                   configVars, now, ui, view, nticks, nops>>

\* if st.session_state.monitoring: (true) -> data_collection_loop() begins;
\* simulate_realistic_data draws the voltage variation and logs a fluctuation
SimBegin ==
    /\ data_thread = "ifmon"
    /\ monitoring
    /\ nticks < MaxTicks
    /\ \E vc \in VoltageCases :
         /\ loc' = [IdleLoc EXCEPT !.i = 1, !.vvar = vc.jitter + vc.spike,
                                 !.rare = vc.fluct]
         /\ alerts' = IF vc.fluct
                      THEN log_alert_safe(alerts, Entry(now, "warning", "voltage_fluctuation", 0))
                      ELSE alerts
    /\ data_thread' = "sim"
    /\ nticks' = nticks + 1
    /\ UNCHANGED <<flagVars, load_profiles, bufferVars, energy_consumption,
                   latest_data, data_update_counter, last_alert_time,
                   configVars, now, ui, view, nops>>

\* the draws of random.uniform(10.0, 30.0) open to one load: the model lets
\* at most one of the rare random branches (1% voltage fluctuation, 0.5%
\* current spike) be taken per tick
SpikeChoices(rare) == IF rare THEN {0} ELSE CurrentSpikes

\* one iteration of: for load_name, load_data in self.load_profiles.items()
SimLoad ==
    /\ data_thread = "sim"
    /\ loc.i \in 1..Len(LoadOrder)
    /\ LET l  == LoadOrder[loc.i]
           ld == load_profiles[l]
       IN  IF ld.active
           THEN \E spike \in SpikeChoices(loc.rare) :
                  LET load_current == Max(0, ld.current + spike)
                      load_power   == (BASE_VOLTAGE + loc.vvar) * load_current * ld.power_factor
                  IN  /\ loc' = [loc EXCEPT !.i = loc.i + 1,
                                            !.tc = loc.tc + load_current,
                                            !.tp = loc.tp + load_power,
                                            !.seen = loc.seen \cup {l},
                                            !.rare = loc.rare \/ spike > 0]
                      /\ alerts' = IF spike > 0
                                   THEN log_alert_safe(alerts, Entry(now, "warning", "current_spike", 0))
                                   ELSE alerts
           ELSE /\ loc' = [loc EXCEPT !.i = loc.i + 1,
                                      !.torn = loc.torn \/
                                               (l \in ui.before /\ loc.seen \cap ui.before # {})]
                /\ alerts' = alerts
    /\ UNCHANGED <<flagVars, data_thread, load_profiles, bufferVars,
                   energy_consumption, latest_data, data_update_counter,
                   last_alert_time, configVars, now, ui, view, nticks, nops>>

\* background load, bounds and rounding: the reading of this tick
Reading(vvar, tc, tp, background_current) ==
    LET total_current == tc + background_current
        total_power   == tp + (BASE_VOLTAGE + vvar) * background_current * BACKGROUND_PF
    IN  [voltage |-> Max(180, Min(270, BASE_VOLTAGE + vvar)),
         current |-> Max(0, Min(600, total_current)),
         power   |-> Max(0, Min(150000, (total_power + 50) \div 100))]

SimEnd ==
    /\ data_thread = "sim"
    /\ loc.i = Len(LoadOrder) + 1
    /\ \E bg \in BackgroundCurrents :
         loc' = [loc EXCEPT !.i = 0, !.data = Reading(loc.vvar, loc.tc, loc.tp, bg)]
    /\ data_thread' = "append"
    /\ UNCHANGED <<flagVars, load_profiles, bufferVars, energy_consumption,
                   latest_data, data_update_counter, alerts, last_alert_time,
                   configVars, now, ui, view, nticks, nops>>

\* self.voltage_data.append / current_data.append / power_data.append
TickAppend ==
    /\ data_thread = "append"
    /\ voltage_data' = DequeAppend(voltage_data, loc.data.voltage)
    /\ current_data' = DequeAppend(current_data, loc.data.current)
    /\ power_data' = DequeAppend(power_data, loc.data.power)
    /\ data_thread' = "energy_read"
    /\ UNCHANGED <<flagVars, loc, load_profiles, energy_data, energy_consumption,
                   latest_data, data_update_counter, alerts, last_alert_time,
                   configVars, now, ui, view, nticks, nops>>

\* (data["power"] / 1000) * (UPDATE_INTERVAL / 3600), in W x UPDATE_INTERVAL
energy_this_interval(power) == power

\* self.energy_consumption += ... : the read of the old value
TickEnergyRead ==
    /\ data_thread = "energy_read"
    /\ loc' = [loc EXCEPT !.e = energy_consumption]
    /\ data_thread' = "energy_write"
    /\ UNCHANGED <<flagVars, load_profiles, bufferVars, energy_consumption,
                   latest_data, data_update_counter, alerts, last_alert_time,
                   configVars, now, ui, view, nticks, nops>>

\* ... the write of the sum, then self.energy_data.append(self.energy_consumption)
TickEnergyWrite ==
    /\ data_thread = "energy_write"
    /\ energy_consumption' = loc.e + energy_this_interval(loc.data.power)
    /\ energy_data' = DequeAppend(energy_data, energy_consumption')
    /\ data_thread' = "publish"
    /\ UNCHANGED <<flagVars, loc, load_profiles, voltage_data, current_data,
                   power_data, latest_data, data_update_counter, alerts,
                   last_alert_time, configVars, now, ui, view, nticks, nops>>

\* with self.thread_lock: latest_data = data; data_update_counter += 1
TickPublish ==
    /\ data_thread = "publish"
    /\ latest_data' = loc.data
    /\ data_update_counter' = data_update_counter + 1
    /\ data_thread' = "log"
    /\ UNCHANGED <<flagVars, loc, load_profiles, bufferVars, energy_consumption,
                   alerts, last_alert_time, configVars, now, ui, view, nticks,
                   nops>>

\* a log_data that drops the row without a word when the write fails
log_data_unreported(hist, t, write_ok) == hist

\* log_data(data): the alert history after it; the except branch records
\* the failed write
log_data(hist, t, write_ok) ==
    IF write_ok THEN hist
    ELSE log_alert_safe(hist, Entry(t, "error", "log_failed", 0))

\* if self.logging_enabled: self.log_data(data); the row of this tick is
\* written to DATA_LOG_FILE or not
TickLog ==
    /\ data_thread = "log"
    /\ \E write_ok \in BOOLEAN :
         /\ alerts' = IF logging_enabled THEN log_data(alerts, now, write_ok) ELSE alerts
         /\ loc' = [loc EXCEPT !.row = IF ~logging_enabled THEN "none"
                                       ELSE IF write_ok THEN "written" ELSE "failed"]
    /\ data_thread' = "alerts"
    /\ UNCHANGED <<flagVars, load_profiles, bufferVars, energy_consumption,
                   latest_data, data_update_counter, last_alert_time,
                   configVars, now, ui, view, nticks, nops>>

\* except Exception as e: self.log_alert_safe("System Error ...", "error")
tick_except(hist, t) == log_alert_safe(hist, Entry(t, "error", "system_error", 0))

\* self.check_alerts(data); an exception leaving it is caught by the tick
TickAlerts ==
    /\ data_thread = "alerts"
    /\ \E outcome \in DeliveryOutcomes :
         LET st == check_alerts(loc.data, now, outcome)
         IN  /\ last_alert_time' = st.last
             /\ alerts' = IF st.raised THEN tick_except(st.log, now) ELSE st.log
    /\ data_thread' = "sleep"
    /\ loc' = IdleLoc
    /\ UNCHANGED <<flagVars, load_profiles, bufferVars, energy_consumption,
                   latest_data, data_update_counter, configVars, now, ui, view,
                   nticks, nops>>

\* a loop that ends with the failed tick
after_tick_exception_ends == "exited"

\* where the data thread goes after an exception inside data_collection_loop:
\* the try/except is inside the tick, so back to the wrapper's time.sleep
after_tick_exception == "sleep"

\* any step of the tick raises
TickFails ==
    /\ data_thread \in TickSteps
    /\ alerts' = tick_except(alerts, now)
    /\ data_thread' = after_tick_exception
    /\ loc' = IdleLoc
    /\ UNCHANGED <<flagVars, load_profiles, bufferVars, energy_consumption,
                   latest_data, data_update_counter, last_alert_time,
                   configVars, now, ui, view, nticks, nops>>

\* time.sleep(UPDATE_INTERVAL)
ThreadSleep ==
    /\ data_thread = "sleep"
    /\ now < MaxClock
    /\ now' = now + 1
    /\ data_thread' = "while"
    /\ UNCHANGED <<flagVars, loc, load_profiles, bufferVars, energy_consumption,
                   latest_data, data_update_counter, alerts, last_alert_time,
                   configVars, ui, view, nticks, nops>>

\* the thread function returns: is_alive() becomes False
ThreadExit ==
    /\ data_thread = "exited"
    /\ data_thread' = "dead"
    /\ UNCHANGED <<flagVars, loc, load_profiles, bufferVars, energy_consumption,
                   latest_data, data_update_counter, alerts, last_alert_time,
                   configVars, now, ui, view, nticks, nops>>

DataThread ==
    \/ ThreadWhile \/ ThreadSkip \/ SimBegin \/ SimLoad \/ SimEnd
    \/ TickAppend \/ TickEnergyRead \/ TickEnergyWrite \/ TickPublish
    \/ TickLog \/ TickAlerts \/ TickFails \/ ThreadSleep \/ ThreadExit


\* ------------------------------------------------------------------------
\* app.py: the UI (Streamlit script) thread
\* ------------------------------------------------------------------------
UiIdle == ui.pc = "idle" /\ nops < MaxOps

\* start_monitoring
StartMonitoring ==
    /\ UiIdle
    /\ ~monitoring
    /\ monitoring' = TRUE
    /\ running' = TRUE
    /\ stop_event' = FALSE
    /\ data_thread' = IF ~ThreadAlive THEN "while" ELSE data_thread
    /\ alerts' = log_alert(alerts, Entry(now, "info", "monitoring_started", 0))
    /\ nops' = nops + 1
    /\ UNCHANGED <<loc, load_profiles, bufferVars, energy_consumption,
                   latest_data, data_update_counter, last_alert_time,
                   configVars, now, ui, view, nticks>>

\* stop_monitoring, up to the join
StopMonitoring ==
    /\ UiIdle
    /\ monitoring
    /\ monitoring' = FALSE
    /\ running' = FALSE
    /\ stop_event' = TRUE
    /\ ui' = [ui EXCEPT !.pc = "join"]
    /\ nops' = nops + 1
    /\ UNCHANGED <<data_thread, loc, load_profiles, bufferVars,
                   energy_consumption, latest_data, data_update_counter,
                   alerts, last_alert_time, configVars, now, view, nticks>>

\* self.data_thread.join(timeout=2.0) returns when the thread has ended or
\* when the timeout expires (a tick that beeps and speaks its alerts
\* outlasts it); then log_alert and return
join_returns == TRUE

StopJoin ==
    /\ ui.pc = "join"
    /\ ~ThreadAlive \/ join_returns
    /\ alerts' = log_alert(alerts, Entry(now, "info", "monitoring_stopped", 0))
    /\ ui' = [ui EXCEPT !.pc = "idle"]
    /\ UNCHANGED <<flagVars, data_thread, loc, load_profiles, bufferVars,
                   energy_consumption, latest_data, data_update_counter,
                   last_alert_time, configVars, now, view, nticks, nops>>

\* the value clear_data gives energy_consumption
cleared_energy == 0

\* clear_data: the buffers and the energy
ClearData ==
    /\ UiIdle
    /\ voltage_data' = Fill(230, MAX_DATA_POINTS)
    /\ current_data' = Fill(50, MAX_DATA_POINTS)
    /\ power_data' = Fill(11500, MAX_DATA_POINTS)
    /\ energy_data' = Fill(0, MAX_DATA_POINTS)
    /\ energy_consumption' = cleared_energy
    /\ ui' = [ui EXCEPT !.pc = "clear"]
    /\ nops' = nops + 1
    /\ UNCHANGED <<flagVars, data_thread, loc, load_profiles, latest_data,
                   data_update_counter, alerts, last_alert_time, configVars,
                   now, view, nticks>>

\* clear_data: latest_data, the update counter and the log entry
ClearDataEnd ==
    /\ ui.pc = "clear"
    /\ latest_data' = [voltage |-> 230, current |-> 50, power |-> 11500]
    /\ data_update_counter' = 0
    /\ alerts' = log_alert(alerts, Entry(now, "info", "data_cleared", 0))
    /\ ui' = [ui EXCEPT !.pc = "idle"]
    /\ UNCHANGED <<flagVars, data_thread, loc, load_profiles, bufferVars,
                   energy_consumption, last_alert_time, configVars, now, view,
                   nticks, nops>>

ActiveLoads(profiles) == {l \in Loads : profiles[l].active}

\* emergency_shutdown: entry (shutdown_count = 0)
EmergencyShutdown ==
    /\ UiIdle
    /\ ui' = [pc |-> "shutdown", i |-> 1, count |-> 0,
              before |-> ActiveLoads(load_profiles)]
    /\ nops' = nops + 1
    /\ UNCHANGED <<flagVars, data_thread, loc, load_profiles, bufferVars,
                   energy_consumption, latest_data, data_update_counter,
                   alerts, last_alert_time, configVars, now, view, nticks>>

\* emergency_shutdown: one iteration of for load_name in self.load_profiles
ShutdownStep ==
    /\ ui.pc = "shutdown"
    /\ ui.i \in 1..Len(LoadOrder)
    /\ LET l == LoadOrder[ui.i]
       IN  IF load_profiles[l].active
           THEN /\ load_profiles' = [load_profiles EXCEPT ![l].active = FALSE]
                /\ ui' = [ui EXCEPT !.i = ui.i + 1, !.count = ui.count + 1]
           ELSE /\ load_profiles' = load_profiles
                /\ ui' = [ui EXCEPT !.i = ui.i + 1]
    /\ UNCHANGED <<flagVars, data_thread, loc, bufferVars, energy_consumption,
                   latest_data, data_update_counter, alerts, last_alert_time,
                   configVars, now, view, nticks, nops>>

\* emergency_shutdown: the alerts it appends once the loop is over
shutdown_log(hist, t, count) ==
    log_alert(hist, Entry(t, "error", "emergency_shutdown", count))

\* emergency_shutdown: log_alert, trigger_alert (an exception of the playback
\* ends the script run after the entry is logged), st.rerun
ShutdownEnd ==
    /\ ui.pc = "shutdown"
    /\ ui.i = Len(LoadOrder) + 1
    /\ alerts' = shutdown_log(alerts, now, ui.count)
    /\ ui' = [ui EXCEPT !.pc = "idle", !.i = 0]
    /\ UNCHANGED <<flagVars, data_thread, loc, load_profiles, bufferVars,
                   energy_consumption, latest_data, data_update_counter,
                   last_alert_time, configVars, now, view, nticks, nops>>

\* update_load_status (the Active checkbox of one load)
UpdateLoadStatus ==
    /\ UiIdle
    /\ \E l \in Loads :
         load_profiles' = [load_profiles EXCEPT ![l].active = ~load_profiles[l].active]
    /\ alerts' = log_alert(alerts, Entry(now, "info", "load_switched", 0))
    /\ ui' = [ui EXCEPT !.before = {}, !.count = 0]
    /\ nops' = nops + 1
    /\ UNCHANGED <<flagVars, data_thread, loc, bufferVars, energy_consumption,
                   latest_data, data_update_counter, last_alert_time,
                   configVars, now, view, nticks>>

\* create_monitoring_tab / create_graphs / create_energy_tab: the script run
\* reads the engine state, without thread_lock
Render ==
    /\ UiIdle
    /\ view' = Snapshot
    /\ nops' = nops + 1
    /\ UNCHANGED <<flagVars, data_thread, loc, load_profiles, bufferVars,
                   energy_consumption, latest_data, data_update_counter,
                   alerts, last_alert_time, configVars, now, ui, nticks>>

UiThread ==
    \/ StartMonitoring \/ StopMonitoring \/ StopJoin
    \/ ClearData \/ ClearDataEnd
    \/ EmergencyShutdown \/ ShutdownStep \/ ShutdownEnd
    \/ UpdateLoadStatus \/ Render

\* ------------------------------------------------------------------------
\* app.py: the settings tab (script thread)
\* ------------------------------------------------------------------------
\* the dict save_config builds, less its alert_cooldown member
app_config_without_cooldown ==
    [voltage_threshold |-> voltage_threshold,
     current_threshold |-> current_threshold,
     power_threshold |-> power_threshold,
     energy_budget |-> energy_budget,
     tariff_rates |-> tariff_rates,
     load_profiles |-> load_profiles,
     logging_enabled |-> logging_enabled,
     alert_sounds |-> alert_sounds,
     voice_alerts |-> voice_alerts]

\* the dict save_config builds
app_config ==
    [voltage_threshold |-> voltage_threshold,
     current_threshold |-> current_threshold,
     power_threshold |-> power_threshold,
     energy_budget |-> energy_budget,
     tariff_rates |-> tariff_rates,
     load_profiles |-> load_profiles,
     logging_enabled |-> logging_enabled,
     alert_sounds |-> alert_sounds,
     voice_alerts |-> voice_alerts,
     alert_cooldown |-> alert_cooldown]

\* the alert save_config logs
save_log(hist, t, outcome) ==
    log_alert(hist, IF outcome = "ok" THEN Entry(t, "info", "config_saved", 0)
                    ELSE Entry(t, "error", "save_failed", 0))

\* load_config on the configuration cur: the configuration after it and the
\* alert history
load_config(cur, file, hist, t) ==
    IF ~file.exists THEN [config |-> cur, log |-> hist]
    ELSE IF json_load_raises(file)
    THEN [config |-> cur, log |-> log_alert(hist, Entry(t, "error", "load_failed", 0))]
    ELSE LET config == file.members
         IN  [config |->
                 [voltage_threshold |-> config_get(config, "voltage_threshold", 250),
                  current_threshold |-> config_get(config, "current_threshold", 150),
                  power_threshold |-> config_get(config, "power_threshold", 30000),
                  energy_budget |-> config_get(config, "energy_budget", 1000),
                  tariff_rates |-> config_get(config, "tariff_rates", cur.tariff_rates),
                  load_profiles |-> config_get(config, "load_profiles", cur.load_profiles),
                  logging_enabled |-> config_get(config, "logging_enabled", TRUE),
                  alert_sounds |-> config_get(config, "alert_sounds", TRUE),
                  voice_alerts |-> config_get(config, "voice_alerts", TRUE),
                  alert_cooldown |-> config_get(config, "alert_cooldown", 10)],
              log |-> log_alert(hist, Entry(t, "info", "config_loaded", 0))]

\* the configuration attributes of the object
Settings ==
    [voltage_threshold |-> voltage_threshold,
     current_threshold |-> current_threshold,
     power_threshold |-> power_threshold,
     energy_budget |-> energy_budget,
     tariff_rates |-> tariff_rates,
     load_profiles |-> load_profiles,
     logging_enabled |-> logging_enabled,
     alert_sounds |-> alert_sounds,
     voice_alerts |-> voice_alerts,
     alert_cooldown |-> alert_cooldown]

\* the attributes of the object taking the values of the dict c
AssignConfig(c) ==
    /\ voltage_threshold' = c.voltage_threshold
    /\ current_threshold' = c.current_threshold
    /\ power_threshold' = c.power_threshold
    /\ energy_budget' = c.energy_budget
    /\ tariff_rates' = c.tariff_rates
    /\ load_profiles' = c.load_profiles
    /\ logging_enabled' = c.logging_enabled
    /\ alert_sounds' = c.alert_sounds
    /\ voice_alerts' = c.voice_alerts
    /\ alert_cooldown' = c.alert_cooldown

\* what the widgets of the settings tab can be set to
VoltageInputs == {250, 260}
BudgetInputs == {1000, 2000}
RateInputs == {575, 600}

settingsFrame == <<flagVars, data_thread, loc, bufferVars, energy_consumption,
                   latest_data, data_update_counter, last_alert_time, now, ui,
                   view, nticks>>

SettingsIdle == engine = "app" /\ ui.pc = "idle" /\ nops < MaxSettingsOps

\* the threshold widgets and the cooldown slider, then "Update Thresholds"
UpdateThresholdsButton ==
    /\ SettingsIdle
    /\ \E v \in VoltageInputs, b \in BudgetInputs, cd \in ScenarioCooldowns :
         /\ voltage_threshold' = v
         /\ energy_budget' = b
         /\ alert_cooldown' = cd
    /\ UNCHANGED <<current_threshold, power_threshold, tariff_rates, load_profiles,
                   logging_enabled, alert_sounds, voice_alerts>>
    /\ \E outcome \in WriteOutcomes :
         /\ config_file' = write_config(config_file, app_config', outcome)
         /\ alerts' = save_log(log_alert(alerts, Entry(now, "info", "thresholds_updated", 0)),
                               now, outcome)
    /\ nops' = nops + 1
    /\ UNCHANGED settingsFrame

\* the tariff widgets, then "Update Tariff Rates"
UpdateTariffButton ==
    /\ SettingsIdle
    /\ \E r \in RateInputs : tariff_rates' = [tariff_rates EXCEPT !.peak = r]
    /\ UNCHANGED <<voltage_threshold, current_threshold, power_threshold,
                   energy_budget, alert_cooldown, load_profiles, logging_enabled,
                   alert_sounds, voice_alerts>>
    /\ \E outcome \in WriteOutcomes :
         /\ config_file' = write_config(config_file, app_config', outcome)
         /\ alerts' = save_log(log_alert(alerts, Entry(now, "info", "tariff_updated", 0)),
                               now, outcome)
    /\ nops' = nops + 1
    /\ UNCHANGED settingsFrame

\* the check boxes, then "Save Configuration"
SaveConfigButton ==
    /\ SettingsIdle
    /\ \E v \in BOOLEAN : voice_alerts' = v
    /\ UNCHANGED <<voltage_threshold, current_threshold, power_threshold,
                   energy_budget, alert_cooldown, tariff_rates, load_profiles,
                   logging_enabled, alert_sounds>>
    /\ \E outcome \in WriteOutcomes :
         /\ config_file' = write_config(config_file, app_config', outcome)
         /\ alerts' = save_log(alerts, now, outcome)
    /\ nops' = nops + 1
    /\ UNCHANGED settingsFrame

\* "Load Configuration"
LoadConfigButton ==
    /\ SettingsIdle
    /\ LET st == load_config(Settings, config_file, alerts, now)
       IN  AssignConfig(st.config) /\ alerts' = st.log
    /\ nops' = nops + 1
    /\ UNCHANGED <<settingsFrame, config_file>>

\* "Reset to Defaults"
reset_to_defaults ==
    /\ SettingsIdle
    /\ voltage_threshold' = 250
    /\ current_threshold' = 150
    /\ power_threshold' = 30000
    /\ energy_budget' = 1000
    /\ tariff_rates' = DefaultTariff
    /\ alert_cooldown' = 10
    /\ alerts' = log_alert(alerts, Entry(now, "info", "reset_to_defaults", 0))
    /\ nops' = nops + 1
    /\ UNCHANGED <<settingsFrame, load_profiles, logging_enabled, alert_sounds,
                   voice_alerts, config_file>>

AppSettings ==
    \/ UpdateThresholdsButton \/ UpdateTariffButton \/ SaveConfigButton
    \/ LoadConfigButton \/ reset_to_defaults

\* ------------------------------------------------------------------------
\* loadf1.py (Tk main thread + data threads)
\* ------------------------------------------------------------------------
F1_LOW_VOLTAGE == 180
F1_BACKGROUND_PF == 90
F1Threads == 1..MaxThreads

\* draws of simulate_realistic_data: plain, or the 5% spike branch
F1VoltageCases == { [jitter |-> 0, spike |-> 0,  fluct |-> FALSE],
                    [jitter |-> 0, spike |-> 30, fluct |-> TRUE] }

F1Entry(level, kind, nums) == [level |-> level, kind |-> kind, nums |-> nums]

\* self.tariff_rates as __init__ sets it (5.75 Rs./kWh in every band)
F1DefaultTariff == [peak |-> 575, off_peak |-> 575, shoulder |-> 575]

F1Init ==
    [running |-> FALSE, is_closing |-> FALSE,
     start_btn |-> TRUE, stop_btn |-> FALSE,
     threads |-> [t \in F1Threads |-> "none"],
     tl |-> [t \in F1Threads |-> [data |-> NoData, e |-> 0]],
     load_profiles |-> DefaultProfiles,
     voltage_data |-> Fill(0, MAX_DATA_POINTS),
     current_data |-> Fill(0, MAX_DATA_POINTS),
     power_data |-> Fill(0, MAX_DATA_POINTS),
     energy_data |-> Fill(0, MAX_DATA_POINTS),
     energy_consumption |-> 0,
     voltage_threshold |-> 230, current_threshold |-> 150,
     power_threshold |-> 30000, energy_budget |-> 1000,
     tariff_rates |-> F1DefaultTariff,
     logging_var |-> 1, alert_sound_var |-> 1, voice_alerts_var |-> 1,
     alert_history |-> << >>,
     after |-> 0,
     nticks |-> 0, nops |-> 0, nfail |-> 0]

\* log_alert: nothing is recorded once is_closing is set
F1LogAlert(hist, e) == IF f1.is_closing THEN hist ELSE Append(hist, e)

F1Live == {t \in F1Threads : f1.threads[t] \notin {"none", "done"}}
F1TickSteps == {"tick", "energy_write", "finish"}
F1Tk == engine = "loadf1" /\ ~f1.is_closing
F1Cmd == F1Tk /\ f1.nops < MaxCommands

\* start_monitoring (the Start button, while it is enabled)
F1StartMonitoring ==
    /\ F1Cmd
    /\ f1.start_btn
    /\ \E t \in F1Threads :
         /\ f1.threads[t] = "none"
         /\ \A u \in F1Threads : u < t => f1.threads[u] # "none"
         /\ f1' = [f1 EXCEPT !.running = TRUE, !.start_btn = FALSE, !.stop_btn = TRUE,
                             !.threads[t] = "while",
                             !.alert_history =
                                 F1LogAlert(@, F1Entry("info", "monitoring_started", {})),
                             !.nops = @ + 1]

\* stop_monitoring (the Stop button, while it is enabled)
F1StopMonitoring ==
    /\ F1Cmd
    /\ f1.stop_btn
    /\ f1' = [f1 EXCEPT !.running = FALSE, !.start_btn = TRUE, !.stop_btn = FALSE,
                        !.alert_history =
                            F1LogAlert(@, F1Entry("info", "monitoring_stopped", {})),
                             !.nops = @ + 1]

\* clear_data
F1ClearData ==
    /\ F1Cmd
    /\ f1' = [f1 EXCEPT !.voltage_data = << >>, !.current_data = << >>,
                        !.power_data = << >>, !.energy_consumption = 0,
                        !.alert_history =
                            F1LogAlert(@, F1Entry("info", "data_cleared", {})),
                        !.nops = @ + 1]

\* toggle_load on a load table and alert history: [profiles, hist]
toggle_load(st, l) ==
    [profiles |-> [st.profiles EXCEPT ![l].active = ~st.profiles[l].active],
     hist |-> F1LogAlert(st.hist, F1Entry("info", "load_switched", {}))]

F1ToggleLoad ==
    /\ F1Cmd
    /\ \E l \in Loads :
         LET st == toggle_load([profiles |-> f1.load_profiles, hist |-> f1.alert_history], l)
         IN  f1' = [f1 EXCEPT !.load_profiles = st.profiles, !.alert_history = st.hist,
                              !.nops = @ + 1]

\* emergency_shutdown on a load table and alert history: toggle_load for
\* every active load, then one error entry
f1_emergency_shutdown(st0) ==
    LET F[i \in 0..Len(LoadOrder)] ==
            IF i = 0 THEN st0
            ELSE IF F[i - 1].profiles[LoadOrder[i]].active
                 THEN toggle_load(F[i - 1], LoadOrder[i])
                 ELSE F[i - 1]
        st == F[Len(LoadOrder)]
    IN  [st EXCEPT !.hist = F1LogAlert(@, F1Entry("error", "emergency_shutdown", {}))]

F1EmergencyShutdown ==
    /\ F1Cmd
    /\ LET st == f1_emergency_shutdown([profiles |-> f1.load_profiles,
                                        hist |-> f1.alert_history])
       IN  f1' = [f1 EXCEPT !.load_profiles = st.profiles, !.alert_history = st.hist,
                            !.nops = @ + 1]

\* update_ui, run by Tk for one root.after(0, self.update_ui, data)
F1UpdateUi ==
    /\ F1Tk
    /\ f1.after > 0
    /\ f1' = [f1 EXCEPT !.energy_data = DequeAppend(@, f1.energy_consumption),
                        !.after = @ - 1]

\* ---- loadf1.py: the settings tab ----------------------------------------
\* the text of an Entry widget; float() of it raises ValueError or gives a
\* number (rates read in hundredths of a rupee)
EntryTexts == {"240", "0", "-5", "abc"}
RateTexts == {"6.0", "4.0", "abc"}

raises_ValueError(text) == text \notin {"240", "150", "0", "-5", "6.0", "4.0"}

float(text) ==
    CASE text = "240" -> 240
      [] text = "150" -> 150
      [] text = "0"   -> 0
      [] text = "-5"  -> -5
      [] text = "6.0" -> 600
      [] text = "4.0" -> 400

\* bool() of an IntVar's value, int() of a JSON boolean
bool(n) == n # 0
int(b) == IF b THEN 1 ELSE 0

\* the dict save_config builds from the object st
f1_config(st) ==
    [voltage_threshold |-> st.voltage_threshold,
     current_threshold |-> st.current_threshold,
     power_threshold |-> st.power_threshold,
     energy_budget |-> st.energy_budget,
     tariff_rates |-> st.tariff_rates,
     load_profiles |-> st.load_profiles,
     logging_enabled |-> bool(st.logging_var),
     alert_sounds |-> bool(st.alert_sound_var),
     voice_alerts |-> bool(st.voice_alerts_var)]

\* the alert save_config logs
f1_save_log(hist, outcome) ==
    F1LogAlert(hist, IF outcome = "ok" THEN F1Entry("info", "config_saved", {})
                     ELSE F1Entry("error", "save_failed", {}))

\* load_config on the object st
f1_load_config(st, file) ==
    LET log(hist, e) == IF st.is_closing THEN hist ELSE Append(hist, e)
    IN
    IF ~file.exists THEN st
    ELSE IF json_load_raises(file)
    THEN [st EXCEPT !.alert_history = log(@, F1Entry("error", "load_failed", {}))]
    ELSE LET config == file.members
         IN  [st EXCEPT
                !.voltage_threshold = config_get(config, "voltage_threshold", 230),
                !.current_threshold = config_get(config, "current_threshold", 150),
                !.power_threshold = config_get(config, "power_threshold", 30000),
                !.energy_budget = config_get(config, "energy_budget", 1000),
                !.tariff_rates = config_get(config, "tariff_rates", st.tariff_rates),
                !.load_profiles = config_get(config, "load_profiles", st.load_profiles),
                !.logging_var = int(config_get(config, "logging_enabled", TRUE)),
                !.alert_sound_var = int(config_get(config, "alert_sounds", TRUE)),
                !.voice_alerts_var = int(config_get(config, "voice_alerts", TRUE)),
                !.alert_history = log(@, F1Entry("info", "config_loaded", {}))]

F1SettingsCmd == F1Tk /\ f1.nops < MaxSettingsOps

\* update_thresholds with the texts of the voltage, current and budget
\* entries (the power entry holds the default): the object and the file
update_thresholds(st, file, vt, ct, bt, outcome) ==
    IF raises_ValueError(vt) \/ raises_ValueError(ct) \/ raises_ValueError(bt)
    THEN [st |-> [st EXCEPT !.alert_history =
                               F1LogAlert(@, F1Entry("error", "invalid_thresholds", {}))],
          file |-> file]
    ELSE LET set == [st EXCEPT !.voltage_threshold = float(vt),
                               !.current_threshold = float(ct),
                               !.energy_budget = float(bt),
                               !.alert_history =
                                   F1LogAlert(@, F1Entry("info", "thresholds_updated", {}))]
         IN  [st |-> [set EXCEPT !.alert_history = f1_save_log(@, outcome)],
              file |-> write_config(file, f1_config(set), outcome)]

F1UpdateThresholds ==
    /\ F1SettingsCmd
    /\ \E vt \in EntryTexts, ct \in {"150", "abc"}, bt \in EntryTexts,
          outcome \in WriteOutcomes :
         LET r == update_thresholds(f1, config_file, vt, ct, bt, outcome)
         IN  /\ f1' = [r.st EXCEPT !.nops = @ + 1]
             /\ config_file' = r.file

\* update_tariff_rates with the texts of the three entries: each rate is
\* stored as soon as its text is converted
update_tariff_rates(st, pt, ot, sht) ==
    LET failed(s) == [s EXCEPT !.alert_history =
                                  F1LogAlert(@, F1Entry("error", "invalid_tariff", {}))]
    IN  IF raises_ValueError(pt) THEN failed(st)
        ELSE LET s1 == [st EXCEPT !.tariff_rates.peak = float(pt)]
             IN  IF raises_ValueError(ot) THEN failed(s1)
                 ELSE LET s2 == [s1 EXCEPT !.tariff_rates.off_peak = float(ot)]
                      IN  IF raises_ValueError(sht) THEN failed(s2)
                          ELSE [s2 EXCEPT !.tariff_rates.shoulder = float(sht),
                                          !.alert_history =
                                              F1LogAlert(@, F1Entry("info", "tariff_updated", {}))]

F1UpdateTariffRates ==
    /\ F1SettingsCmd
    /\ \E pt \in RateTexts, ot \in RateTexts, sht \in RateTexts :
         f1' = [update_tariff_rates(f1, pt, ot, sht) EXCEPT !.nops = @ + 1]
    /\ UNCHANGED config_file

\* the check boxes, then "Save Configuration"
F1SaveConfig ==
    /\ F1SettingsCmd
    /\ \E v \in {0, 1}, outcome \in WriteOutcomes :
         LET set == [f1 EXCEPT !.voice_alerts_var = v]
         IN  /\ f1' = [set EXCEPT !.alert_history = f1_save_log(@, outcome),
                                  !.nops = @ + 1]
             /\ config_file' = write_config(config_file, f1_config(set), outcome)

\* "Load Configuration"
F1LoadConfig ==
    /\ F1SettingsCmd
    /\ f1' = [f1_load_config(f1, config_file) EXCEPT !.nops = @ + 1]
    /\ UNCHANGED config_file

F1Settings ==
    \/ F1UpdateThresholds \/ F1UpdateTariffRates \/ F1SaveConfig \/ F1LoadConfig

\* on_closing: is_closing, stop_monitoring, join(timeout=1.0), save_config
\* (whose write goes through here; its failures are followed in the settings
\* scenario), destroy
F1OnClosing ==
    /\ F1Tk
    /\ f1' = [f1 EXCEPT !.is_closing = TRUE, !.running = FALSE,
                        !.start_btn = FALSE, !.stop_btn = FALSE, !.after = 0]
    /\ config_file' = write_config(config_file, f1_config(f1), "ok")

F1Main ==
    \/ /\ \/ F1StartMonitoring \/ F1StopMonitoring \/ F1ClearData \/ F1ToggleLoad
          \/ F1EmergencyShutdown \/ F1UpdateUi
       /\ UNCHANGED config_file
    \/ F1OnClosing

\* ---- loadf1.py: data_collection_loop on thread t --------------------------
\* time.sleep(...) ends (or the thread has just started); while self.running:
F1While(t) ==
    /\ f1.threads[t] \in {"while", "sleep", "errsleep"}
    /\ f1' = [f1 EXCEPT !.threads[t] = IF f1.running THEN "tick" ELSE "done"]

\* simulate_realistic_data with no current spike and no measurement error
F1Reading(profiles, vvar, background_current) ==
    LET Sum[i \in 0..Len(LoadOrder)] ==
            IF i = 0 THEN [c |-> 0, p |-> 0]
            ELSE LET ld == profiles[LoadOrder[i]]
                 IN  IF ld.active
                     THEN [c |-> Sum[i - 1].c + ld.current,
                           p |-> Sum[i - 1].p
                                   + (BASE_VOLTAGE + vvar) * ld.current * ld.power_factor]
                     ELSE Sum[i - 1]
        tc == Sum[Len(LoadOrder)].c + background_current
        tp == Sum[Len(LoadOrder)].p
                + (BASE_VOLTAGE + vvar) * background_current * F1_BACKGROUND_PF
    IN  [voltage |-> Max(150, Min(280, BASE_VOLTAGE + vvar)),
         current |-> Max(0, Min(800, tc)),
         power   |-> Max(0, Min(200000, (tp + 50) \div 100))]

\* (data["power"] / 1000) * (UPDATE_INTERVAL / 3600000), in energy units
f1_energy_this_interval(power) == power

\* data = self.simulate_realistic_data(); the three appends; the read of
\* self.energy_consumption in  self.energy_consumption += energy_this_interval
F1Simulate(t) ==
    /\ f1.threads[t] = "tick"
    /\ f1.nticks < MaxTicks
    /\ \E vc \in F1VoltageCases, bg \in BackgroundCurrents :
         LET data == F1Reading(f1.load_profiles, vc.jitter + vc.spike, bg)
         IN  f1' = [f1 EXCEPT !.threads[t] = "energy_write",
                              !.tl[t] = [data |-> data, e |-> f1.energy_consumption],
                              !.voltage_data = DequeAppend(@, data.voltage),
                              !.current_data = DequeAppend(@, data.current),
                              !.power_data = DequeAppend(@, data.power),
                              !.alert_history =
                                  IF vc.fluct
                                  THEN F1LogAlert(@, F1Entry("warning", "voltage_fluctuation", {}))
                                  ELSE @,
                              !.nticks = @ + 1]

\* the write of  self.energy_consumption += energy_this_interval
F1EnergyWrite(t) ==
    /\ f1.threads[t] = "energy_write"
    /\ f1' = [f1 EXCEPT !.threads[t] = "finish",
                        !.energy_consumption =
                            f1.tl[t].e + f1_energy_this_interval(f1.tl[t].data.power)]

\* check_alerts: the kinds it logs for a reading, in order (trigger_alert
\* swallows every playback failure)
f1_check_alerts(data) ==
    LET active == \E l \in Loads : f1.load_profiles[l].active
        v == IF data.voltage > f1.voltage_threshold THEN <<"high_voltage">>
             ELSE IF data.voltage < F1_LOW_VOLTAGE THEN <<"low_voltage">> ELSE << >>
        c == IF data.current > f1.current_threshold THEN <<"high_current">>
             ELSE IF data.current < 1 /\ active THEN <<"low_current">> ELSE << >>
        p == IF data.power > f1.power_threshold THEN <<"high_power">>
             ELSE IF data.power < 50 /\ active THEN <<"low_power">> ELSE << >>
        \* self.energy_consumption >= energy_budget * 0.9, in energy units
        b == IF f1.energy_consumption \div (9 * (UNITS_PER_KWH \div 10)) >= f1.energy_budget
             THEN IF f1.energy_consumption \div UNITS_PER_KWH >= f1.energy_budget
                  THEN <<"budget_exceeded">>
                  ELSE <<"budget_warning">>
             ELSE << >>
    IN  v \o c \o p \o b

F1LogAll(hist, kinds) ==
    IF f1.is_closing THEN hist
    ELSE hist \o [i \in 1..Len(kinds) |-> F1Entry(Severity(kinds[i]), kinds[i], {})]

\* the rest of the loop body: root.after(0, self.update_ui, data), log_data
\* (a failed write is caught there and logged as an error), check_alerts
F1Finish(t) ==
    /\ f1.threads[t] = "finish"
    /\ ~f1.is_closing
    /\ \E write_ok \in BOOLEAN :
         f1' = [f1 EXCEPT !.threads[t] = "sleep",
                          !.after = @ + 1,
                          !.alert_history =
                              F1LogAll(IF write_ok THEN @
                                       ELSE F1LogAlert(@, F1Entry("error", "log_failed", {})),
                                       f1_check_alerts(f1.tl[t].data))]

\* where the thread is after the except branch of the loop body
f1_after_tick_exception == "errsleep"

\* except Exception as e: self.log_alert("System Error: ...", "error")
F1TickFails(t) ==
    /\ f1.threads[t] \in F1TickSteps
    /\ f1.threads[t] = "tick" => f1.nticks < MaxTicks
    /\ f1.nfail < MaxFailures
    /\ f1' = [f1 EXCEPT !.threads[t] = f1_after_tick_exception,
                        !.nfail = @ + 1,
                        !.alert_history =
                            F1LogAlert(@, F1Entry("error", "system_error", {})),
                        !.nticks = IF f1.threads[t] = "tick" THEN @ + 1 ELSE @]

F1Thread(t) ==
    \/ F1While(t) \/ F1Simulate(t) \/ F1EnergyWrite(t) \/ F1Finish(t)
    \/ F1TickFails(t)

F1Next ==
    \/ F1Main
    \/ engine = "loadf1" /\ (\E t \in F1Threads : F1Thread(t)) /\ UNCHANGED config_file

\* ------------------------------------------------------------------------
\* load6.py (Tk main thread only; fetch_data re-arms itself with root.after)
\* ------------------------------------------------------------------------
L6_MAXLEN == 50
L6Readings == { [voltage |-> 225, current |-> 3, power |-> 600],
                [voltage |-> 235, current |-> 5, power |-> 1100] }

L6Init ==
    [fetching_data |-> FALSE, alert_active |-> FALSE,
     pending |-> 0,
     voltage_data |-> Fill(0, L6_MAXLEN),
     current_data |-> Fill(0, L6_MAXLEN),
     power_data |-> Fill(0, L6_MAXLEN),
     nticks |-> 0]

L6Append(q, v) ==
    LET a == Append(q, v)
    IN  IF Len(a) > L6_MAXLEN THEN Tail(a) ELSE a

\* fetch_data() on the state st with a drawn reading
fetch_data(st, data) ==
    IF ~st.fetching_data THEN st
    ELSE [st EXCEPT !.voltage_data = L6Append(@, data.voltage),
                    !.current_data = L6Append(@, data.current),
                    !.power_data = L6Append(@, data.power),
                    !.alert_active = data.voltage > 230 \/ data.current > 4
                                       \/ data.power > 1000,
                    !.pending = @ + 1,
                    !.nticks = @ + 1]

\* start_fetching (the Start button, never disabled)
start_fetching ==
    /\ engine = "load6"
    /\ l6.pending < MaxPending
    /\ l6.nticks < MaxTicks
    /\ \E data \in L6Readings :
         l6' = fetch_data([l6 EXCEPT !.fetching_data = TRUE], data)

\* stop_fetching
stop_fetching ==
    /\ engine = "load6"
    /\ l6' = [l6 EXCEPT !.fetching_data = FALSE, !.alert_active = FALSE]

\* Tk runs one fetch_data scheduled by root.after(1000, fetch_data)
L6Timer ==
    /\ engine = "load6"
    /\ l6.pending > 0
    /\ l6.fetching_data => l6.nticks < MaxTicks
    /\ \E data \in L6Readings :
         l6' = fetch_data([l6 EXCEPT !.pending = @ - 1], data)

L6Next == start_fetching \/ stop_fetching \/ L6Timer

Engines == {"app", "loadf1", "load6"}

Init ==
    /\ AppInit
    /\ engine \in Engines
    /\ f1 = F1Init
    /\ l6 = L6Init
    /\ session = LoggedIn
    /\ l17 = L17Init
    /\ config_file = NoFile

AppNext == engine = "app" /\ (DataThread \/ UiThread)

Next ==
    \/ AppNext /\ UNCHANGED <<engine, f1, l6, session, l17, config_file>>
    \/ F1Next /\ UNCHANGED <<appVars, engine, l6, session, l17>>
    \/ L6Next /\ UNCHANGED <<appVars, engine, f1, config_file, session, l17>>

Spec == Init /\ [][Next]_vars


\* ------------------------------------------------------------------------
\* app.py: the alert evaluator driven once per second with a fixed reading
\* ------------------------------------------------------------------------
ScenarioReadings ==
    { [voltage |-> 260, current |-> 135, power |-> 28888],
      [voltage |-> 195, current |-> 135, power |-> 28888],
      [voltage |-> 230, current |-> 155, power |-> 28888],
      [voltage |-> 230, current |-> 135, power |-> 33000],
      [voltage |-> 260, current |-> 135, power |-> 33000],
      [voltage |-> 230, current |-> 135, power |-> 28888] }

CooldownInit ==
    /\ monitoring = TRUE
    /\ running = TRUE
    /\ stop_event = FALSE
    /\ data_thread = "alerts"
    /\ loc = IdleLoc
    /\ load_profiles = DefaultProfiles
    /\ voltage_data = Fill(220, MAX_DATA_POINTS)
    /\ current_data = Fill(50, MAX_DATA_POINTS)
    /\ power_data = Fill(11000, MAX_DATA_POINTS)
    /\ energy_data = Fill(0, MAX_DATA_POINTS)
    /\ energy_consumption = 0
    /\ latest_data \in ScenarioReadings
    /\ data_update_counter = 0
    /\ alerts = << >>
    /\ last_alert_time = [k \in {} |-> 0]
    /\ alert_cooldown \in ScenarioCooldowns
    /\ voltage_threshold = 250
    /\ current_threshold = 150
    /\ power_threshold = 30000
    /\ energy_budget = 1000
    /\ logging_enabled = TRUE
    /\ alert_sounds \in BOOLEAN
    /\ voice_alerts = FALSE
    /\ tariff_rates = DefaultTariff
    /\ now = 0
    /\ ui = IdleUi
    /\ view = [latest |-> [voltage |-> 220, current |-> 50, power |-> 11000],
               energy |-> 0, v |-> 220, c |-> 50, p |-> 11000, e |-> 0]
    /\ nticks = 0
    /\ nops = 0
    /\ engine = "app"
    /\ f1 = F1Init
    /\ l6 = L6Init
    /\ session = LoggedIn
    /\ l17 = L17Init
    /\ config_file = NoFile

\* one tick's self.check_alerts(data), one second after the previous one
Evaluate ==
    /\ now < ScenarioSeconds * UNITS_PER_SECOND
    /\ now' = now + UNITS_PER_SECOND
    /\ \E outcome \in DeliveryOutcomes :
         LET st == check_alerts(latest_data, now', outcome)
         IN  /\ last_alert_time' = st.last
             /\ alerts' = IF st.raised THEN tick_except(st.log, now') ELSE st.log
    /\ nticks' = nticks + 1
    /\ UNCHANGED <<flagVars, data_thread, loc, load_profiles, bufferVars,
                   energy_consumption, latest_data, data_update_counter,
                   configVars, ui, view, nops>>

SpecCooldown ==
    CooldownInit /\ [][Evaluate /\ UNCHANGED <<engine, f1, l6, session, l17, config_file>>]_vars

\* ------------------------------------------------------------------------
\* app.py, loadf1.py: the settings tab, started over a CONFIG_FILE left by an
\* earlier run or written by hand
\* ------------------------------------------------------------------------
StoredFiles ==
    << NoFile,
       [exists |-> TRUE, complete |-> FALSE, members |-> NoMembers],
       [exists |-> TRUE, complete |-> TRUE, members |-> NoMembers],
       [exists |-> TRUE, complete |-> TRUE,
        members |-> [voltage_threshold |-> 1000, energy_budget |-> 0]],
       [exists |-> TRUE, complete |-> TRUE,
        members |-> [voltage_threshold |-> 240, alert_cooldown |-> 5,
                     voice_alerts |-> FALSE,
                     tariff_rates |-> [peak |-> 600, off_peak |-> 300,
                                       shoulder |-> 400]]] >>

\* the attributes __init__ sets before it calls load_config
InitConfig ==
    [voltage_threshold |-> 250, current_threshold |-> 150,
     power_threshold |-> 30000, energy_budget |-> 1000,
     tariff_rates |-> DefaultTariff, load_profiles |-> DefaultProfiles,
     logging_enabled |-> TRUE, alert_sounds |-> TRUE, voice_alerts |-> FALSE,
     alert_cooldown |-> 10]

\* the state after __init__ (app.py) or create_main_interface (loadf1.py),
\* both of which end with load_config()
SettingsInit ==
    /\ engine \in {"app", "loadf1"}
    /\ \E i \in 1..Len(StoredFiles) : config_file = StoredFiles[i]
    /\ monitoring = FALSE
    /\ running = FALSE
    /\ stop_event = FALSE
    /\ data_thread = "none"
    /\ loc = IdleLoc
    /\ voltage_data = Fill(220, MAX_DATA_POINTS)
    /\ current_data = Fill(50, MAX_DATA_POINTS)
    /\ power_data = Fill(11000, MAX_DATA_POINTS)
    /\ energy_data = Fill(0, MAX_DATA_POINTS)
    /\ energy_consumption = 0
    /\ latest_data = [voltage |-> 220, current |-> 50, power |-> 11000]
    /\ data_update_counter = 0
    /\ last_alert_time = [k \in {} |-> 0]
    /\ now = 0
    /\ ui = IdleUi
    /\ view = [latest |-> [voltage |-> 220, current |-> 50, power |-> 11000],
               energy |-> 0, v |-> 220, c |-> 50, p |-> 11000, e |-> 0]
    /\ nticks = 0
    /\ nops = 0
    /\ LET st == IF engine = "app"
                 THEN load_config(InitConfig, config_file, << >>, 0)
                 ELSE [config |-> InitConfig, log |-> << >>]
       IN  /\ voltage_threshold = st.config.voltage_threshold
           /\ current_threshold = st.config.current_threshold
           /\ power_threshold = st.config.power_threshold
           /\ energy_budget = st.config.energy_budget
           /\ tariff_rates = st.config.tariff_rates
           /\ load_profiles = st.config.load_profiles
           /\ logging_enabled = st.config.logging_enabled
           /\ alert_sounds = st.config.alert_sounds
           /\ voice_alerts = st.config.voice_alerts
           /\ alert_cooldown = st.config.alert_cooldown
           /\ alerts = st.log
    /\ f1 = IF engine = "loadf1" THEN f1_load_config(F1Init, config_file) ELSE F1Init
    /\ l6 = L6Init
    /\ session = LoggedIn
    /\ l17 = L17Init

SettingsNext ==
    \/ AppSettings /\ UNCHANGED <<engine, f1, l6, session, l17>>
    \/ F1Settings /\ UNCHANGED <<appVars, engine, l6, session, l17>>

SpecSettings == SettingsInit /\ [][SettingsNext]_vars

\* ------------------------------------------------------------------------
\* app.py, loadf1.py: check_alerts on readings at and around the voltage
\* threshold, with energy budgets down to zero and below
\* ------------------------------------------------------------------------
\* voltages relative to the threshold: at it, one step above, well below
VoltageOffsets == {0, 1, -20}
ScenarioBudgets == {1000, 100, 0, -5}
\* energy used so far: none, a little, and either side of 90 % and of 100 %
\* of a budget of 100 kWh
BudgetEnergies == {0, 11000, 90 * UNITS_PER_KWH - 1, 90 * UNITS_PER_KWH,
                   100 * UNITS_PER_KWH - 1, 100 * UNITS_PER_KWH}

RulesInit ==
    /\ engine \in {"app", "loadf1"}
    /\ monitoring = TRUE
    /\ running = TRUE
    /\ stop_event = FALSE
    /\ data_thread = "alerts"
    /\ loc = IdleLoc
    /\ load_profiles = DefaultProfiles
    /\ voltage_data = Fill(220, MAX_DATA_POINTS)
    /\ current_data = Fill(50, MAX_DATA_POINTS)
    /\ power_data = Fill(11000, MAX_DATA_POINTS)
    /\ energy_data = Fill(0, MAX_DATA_POINTS)
    /\ energy_consumption \in BudgetEnergies
    /\ voltage_threshold = 250
    /\ \E d \in VoltageOffsets :
         latest_data = [voltage |-> voltage_threshold + d, current |-> 135,
                        power |-> 28888]
    /\ data_update_counter = 0
    /\ alerts = << >>
    /\ last_alert_time = [k \in {} |-> 0]
    /\ alert_cooldown = 10
    /\ current_threshold = 150
    /\ power_threshold = 30000
    /\ energy_budget \in ScenarioBudgets
    /\ logging_enabled = TRUE
    /\ alert_sounds = TRUE
    /\ voice_alerts = FALSE
    /\ tariff_rates = DefaultTariff
    /\ now = 0
    /\ ui = IdleUi
    /\ view = [latest |-> [voltage |-> 220, current |-> 50, power |-> 11000],
               energy |-> 0, v |-> 220, c |-> 50, p |-> 11000, e |-> 0]
    /\ nticks = 0
    /\ nops = 0
    /\ \E d \in VoltageOffsets, b \in ScenarioBudgets, e \in BudgetEnergies :
         f1 = IF engine = "loadf1"
              THEN [F1Init EXCEPT
                      !.running = TRUE, !.start_btn = FALSE, !.stop_btn = TRUE,
                      !.energy_budget = b, !.energy_consumption = e,
                      !.threads[1] = "finish",
                      !.tl[1] = [data |-> [voltage |-> F1Init.voltage_threshold + d,
                                           current |-> 135, power |-> 28888],
                                 e |-> e]]
              ELSE F1Init
    /\ l6 = L6Init
    /\ session = LoggedIn
    /\ l17 = L17Init
    /\ config_file = NoFile

RulesNext ==
    \/ engine = "app" /\ Evaluate /\ UNCHANGED <<engine, f1, l6, session, l17, config_file>>
    \/ /\ engine = "loadf1"
       /\ \E t \in F1Threads : F1Finish(t)
       /\ UNCHANGED <<appVars, engine, l6, session, l17, config_file>>

SpecRules == RulesInit /\ [][RulesNext]_vars

\* ------------------------------------------------------------------------
\* app.py: one hour of ticks at a constant power reading
\* ------------------------------------------------------------------------
\* the power every reading of the hour shows, in W
HeldPowers == {11500}

\* what a tick's own work takes, in units of UPDATE_INTERVAL: next to
\* nothing, or the 500 ms of winsound.Beep(800, 500) in trigger_alert
TickDurations == {0, 1}

\* one hour of wall clock
HourUnits == 3600 * UNITS_PER_SECOND

HourInit ==
    /\ engine = "app"
    /\ monitoring = TRUE
    /\ running = TRUE
    /\ stop_event = FALSE
    /\ data_thread = "sleep"
    /\ \E d \in TickDurations, p \in HeldPowers :
         loc = [duration |-> d, power |-> p, last_tick |-> 0]
    /\ load_profiles = DefaultProfiles
    /\ voltage_data = Fill(220, MAX_DATA_POINTS)
    /\ current_data = Fill(50, MAX_DATA_POINTS)
    /\ power_data = Fill(11000, MAX_DATA_POINTS)
    /\ energy_data = Fill(0, MAX_DATA_POINTS)
    /\ energy_consumption = 0
    /\ latest_data = [voltage |-> 220, current |-> 50, power |-> 11000]
    /\ data_update_counter = 0
    /\ alerts = << >>
    /\ last_alert_time = [k \in {} |-> 0]
    /\ alert_cooldown = 10
    /\ voltage_threshold = 250
    /\ current_threshold = 150
    /\ power_threshold = 30000
    /\ energy_budget = 1000
    /\ logging_enabled = TRUE
    /\ alert_sounds = TRUE
    /\ voice_alerts = FALSE
    /\ tariff_rates = DefaultTariff
    /\ now = 0
    /\ ui = IdleUi
    /\ view = [latest |-> [voltage |-> 220, current |-> 50, power |-> 11000],
               energy |-> 0, v |-> 220, c |-> 50, p |-> 11000, e |-> 0]
    /\ nticks = 0
    /\ nops = 0
    /\ f1 = F1Init
    /\ l6 = L6Init
    /\ session = LoggedIn
    /\ l17 = L17Init
    /\ config_file = NoFile

hourFrame == <<flagVars, load_profiles, voltage_data, current_data,
               latest_data, data_update_counter, alerts, last_alert_time,
               configVars, ui, view, nops>>

\* time.sleep(UPDATE_INTERVAL) after a tick that took loc.duration
HourSleep ==
    /\ data_thread = "sleep"
    /\ now + 1 + loc.duration <= HourUnits
    /\ now' = now + 1 + loc.duration
    /\ data_thread' = "energy_write"
    /\ UNCHANGED <<hourFrame, loc, power_data, energy_data, energy_consumption,
                   nticks>>

\* the tick's energy accounting: energy_this_interval, +=, the appends
HourTick ==
    /\ data_thread = "energy_write"
    /\ power_data' = DequeAppend(power_data, loc.power)
    /\ energy_consumption' = energy_consumption + energy_this_interval(loc.power)
    /\ energy_data' = DequeAppend(energy_data, energy_consumption')
    /\ loc' = [loc EXCEPT !.last_tick = now]
    /\ data_thread' = "sleep"
    /\ nticks' = nticks + 1
    /\ UNCHANGED <<hourFrame, now>>

SpecHour ==
    HourInit /\ [][(HourSleep \/ HourTick) /\ UNCHANGED <<engine, f1, l6, session, l17, config_file>>]_vars

\* ------------------------------------------------------------------------
\* app.py, loadf1.py: logging alerts into a history that is nearly full
\* ------------------------------------------------------------------------
\* the history after n earlier alerts, numbered in the order they were logged
NumberedHistory(n) == [i \in 1..n |-> Entry(0, "info", "earlier", i)]
F1NumberedHistory(n) == [i \in 1..n |-> F1Entry("info", "earlier", {i})]

AlertLogInit ==
    /\ engine \in {"app", "loadf1"}
    /\ \E n \in {ALERT_LIMIT - 1, ALERT_LIMIT} :
         /\ alerts = IF engine = "app" THEN NumberedHistory(n) ELSE << >>
         /\ f1 = IF engine = "loadf1"
                 THEN [F1Init EXCEPT !.alert_history = F1NumberedHistory(n),
                                     !.running = TRUE, !.start_btn = FALSE,
                                     !.stop_btn = TRUE, !.threads[1] = "finish"]
                 ELSE F1Init
    /\ monitoring = TRUE
    /\ running = TRUE
    /\ stop_event = FALSE
    /\ data_thread = "alerts"
    /\ loc = [tail |-> << >>]
    /\ load_profiles = DefaultProfiles
    /\ voltage_data = Fill(220, MAX_DATA_POINTS)
    /\ current_data = Fill(50, MAX_DATA_POINTS)
    /\ power_data = Fill(11000, MAX_DATA_POINTS)
    /\ energy_data = Fill(0, MAX_DATA_POINTS)
    /\ energy_consumption = 0
    /\ latest_data = [voltage |-> 220, current |-> 50, power |-> 11000]
    /\ data_update_counter = 0
    /\ last_alert_time = [k \in {} |-> 0]
    /\ alert_cooldown = 10
    /\ voltage_threshold = 250
    /\ current_threshold = 150
    /\ power_threshold = 30000
    /\ energy_budget = 1000
    /\ logging_enabled = TRUE
    /\ alert_sounds = TRUE
    /\ voice_alerts = FALSE
    /\ tariff_rates = DefaultTariff
    /\ now = 0
    /\ ui = [pc |-> "idle", tail |-> << >>]
    /\ view = [latest |-> [voltage |-> 220, current |-> 50, power |-> 11000],
               energy |-> 0, v |-> 220, c |-> 50, p |-> 11000, e |-> 0]
    /\ nticks = 0
    /\ nops = 0
    /\ l6 = L6Init
    /\ session = LoggedIn
    /\ l17 = L17Init
    /\ config_file = NoFile

alertLogFrame == <<flagVars, load_profiles, bufferVars, energy_consumption,
                   latest_data, data_update_counter, last_alert_time,
                   configVars, now, view>>

\* alerts[-200:]
KeepLast(hist) == SubSeq(hist, Max(1, Len(hist) - ALERT_LIMIT + 1), Len(hist))

\* log_alert on the script thread:  st.session_state.alerts.append(log_entry)
UiLogAppend ==
    /\ engine = "app"
    /\ ui.pc = "idle"
    /\ nops < MaxOps
    /\ alerts' = Append(alerts, Entry(now, "info", "ui", nops + 1))
    /\ ui' = [ui EXCEPT !.pc = "trim"]
    /\ nops' = nops + 1
    /\ UNCHANGED <<alertLogFrame, data_thread, loc, nticks>>

\* if len(st.session_state.alerts) > 200:  ... alerts[-200:]  (the new list)
UiLogTrim ==
    /\ engine = "app"
    /\ ui.pc = "trim"
    /\ ui' = IF Len(alerts) > ALERT_LIMIT
             THEN [pc |-> "store", tail |-> KeepLast(alerts)]
             ELSE [pc |-> "idle", tail |-> << >>]
    /\ UNCHANGED <<alertLogFrame, alerts, data_thread, loc, nticks, nops>>

\* st.session_state.alerts = (the new list)
UiLogStore ==
    /\ engine = "app"
    /\ ui.pc = "store"
    /\ alerts' = ui.tail
    /\ ui' = [pc |-> "idle", tail |-> << >>]
    /\ UNCHANGED <<alertLogFrame, data_thread, loc, nticks, nops>>

\* log_alert_safe on the data thread, under thread_lock (which the script
\* thread never takes): the append
TickLogAppend ==
    /\ engine = "app"
    /\ data_thread = "alerts"
    /\ nticks < MaxTicks
    /\ alerts' = Append(alerts, Entry(now, "warning", "tick", nticks + 1))
    /\ data_thread' = "log_trim"
    /\ nticks' = nticks + 1
    /\ UNCHANGED <<alertLogFrame, ui, loc, nops>>

TickLogTrim ==
    /\ engine = "app"
    /\ data_thread = "log_trim"
    /\ IF Len(alerts) > ALERT_LIMIT
       THEN data_thread' = "log_store" /\ loc' = [tail |-> KeepLast(alerts)]
       ELSE data_thread' = "alerts" /\ loc' = [tail |-> << >>]
    /\ UNCHANGED <<alertLogFrame, alerts, ui, nticks, nops>>

TickLogStore ==
    /\ engine = "app"
    /\ data_thread = "log_store"
    /\ alerts' = loc.tail
    /\ data_thread' = "alerts"
    /\ loc' = [tail |-> << >>]
    /\ UNCHANGED <<alertLogFrame, ui, nticks, nops>>

\* loadf1.py log_alert called by a Tk handler / by the data thread
F1MainLogs ==
    /\ F1Tk
    /\ f1.nops < MaxOps
    /\ f1' = [f1 EXCEPT !.alert_history =
                            F1LogAlert(@, F1Entry("info", "ui", {f1.nops + 1})),
                        !.nops = @ + 1]

F1ThreadLogs ==
    /\ F1Tk
    /\ f1.nticks < MaxTicks
    /\ f1' = [f1 EXCEPT !.alert_history =
                            F1LogAlert(@, F1Entry("warning", "tick", {f1.nticks + 1})),
                        !.nticks = @ + 1]

AlertLogNext ==
    \/ /\ \/ UiLogAppend \/ UiLogTrim \/ UiLogStore
          \/ TickLogAppend \/ TickLogTrim \/ TickLogStore
       /\ UNCHANGED <<engine, f1, l6, session, l17, config_file>>
    \/ (F1MainLogs \/ F1ThreadLogs) /\ UNCHANGED <<appVars, engine, l6, session, l17, config_file>>

SpecAlertLog == AlertLogInit /\ [][AlertLogNext]_vars

\* ------------------------------------------------------------------------
\* Properties
\* ------------------------------------------------------------------------
Firings(kind) == {i \in 1..Len(alerts) : alerts[i].kind = kind}
FiringSeconds(kind) == {alerts[i].t \div UNITS_PER_SECOND : i \in Firings(kind)}
ViolatedKinds(data) == {k \in AlertKinds : RuleCond(k, data)}

AppTickStep == engine = "app" /\ data_thread \in TickSteps /\ data_thread' # data_thread
F1TickStep ==
    /\ engine = "loadf1"
    /\ \E t \in F1Threads : f1.threads[t] \in F1TickSteps /\ f1'.threads[t] # f1.threads[t]

\* C2: once stop_monitoring has returned, and until monitoring is started
\* again, no step of a tick is taken
C2_NoTickAfterStop ==
    [][/\ (engine = "app" /\ ~monitoring /\ ui.pc = "idle") => ~AppTickStep
       /\ (engine = "loadf1" /\ ~f1.running) => ~F1TickStep]_vars

\* C3: at most one ticking source exists at any time: one live data thread
\* (app.py has a single thread handle) and one scheduled fetch_data
C3_SingleSource ==
    /\ engine = "loadf1" => Cardinality(F1Live) <= 1
    /\ engine = "load6" => l6.pending <= 1

\* C4: energy_consumption is lowered by no step but clear_data's, which
\* leaves it at exactly 0
C4_EnergyMonotone ==
    [][/\ engine = "app" =>
            (energy_consumption' < energy_consumption =>
                (ui.pc = "idle" /\ ui'.pc = "clear" /\ energy_consumption' = 0))
       /\ engine = "loadf1" =>
            (f1'.energy_consumption < f1.energy_consumption =>
                (F1ClearData /\ f1'.energy_consumption = 0))]_vars

\* C5: the four history buffers have one length, at most MAX_DATA_POINTS
C5_BuffersAligned ==
    /\ engine = "app" =>
         /\ Len(voltage_data) <= MAX_DATA_POINTS
         /\ Len(current_data) = Len(voltage_data)
         /\ Len(power_data) = Len(voltage_data)
         /\ Len(energy_data) = Len(voltage_data)
    /\ engine = "loadf1" =>
         /\ Len(f1.voltage_data) <= MAX_DATA_POINTS
         /\ Len(f1.current_data) = Len(f1.voltage_data)
         /\ Len(f1.power_data) = Len(f1.voltage_data)
         /\ Len(f1.energy_data) = Len(f1.voltage_data)

\* C6: an emergency shutdown leaves every load inactive and appends exactly
\* one alert, of level error, carrying the number of loads it found active
C6_ShutdownReport ==
    [][/\ (engine = "app" /\ ui.pc = "shutdown" /\ ui'.pc = "idle") =>
            /\ ActiveLoads(load_profiles') = {}
            /\ alerts' = Append(alerts, Last(alerts'))
            /\ Last(alerts').level = "error"
            /\ Last(alerts').n = Cardinality(ui.before)
       /\ (engine = "loadf1" /\ F1EmergencyShutdown) =>
            /\ ActiveLoads(f1'.load_profiles) = {}
            /\ f1'.alert_history = Append(f1.alert_history, Last(f1'.alert_history))
            /\ Last(f1'.alert_history).level = "error"
            /\ Cardinality(ActiveLoads(f1.load_profiles)) \in Last(f1'.alert_history).nums]_vars

\* C7: no reading is computed from a scan of the loads that took in one load
\* the emergency shutdown turns off and missed another it had turned off
C7_ShutdownAtomic == engine = "app" => ~loc.torn

\* C8: what the UI reads is the state of a completed tick: the latest reading
\* is the newest entry of the voltage, current and power buffers and the
\* energy is the newest entry of the energy buffer
C8_NoTornView ==
    engine = "app" =>
        /\ view.latest.voltage = view.v
        /\ view.latest.current = view.c
        /\ view.latest.power = view.p
        /\ view.energy = view.e

C10_DeliverySwallowed ==
    [][(engine = "app" /\ data_thread = "alerts" /\ data_thread' = "sleep"
          /\ alerts' # tick_except(alerts, now)) =>
         /\ alerts' = check_alerts(loc.data, now, "ok").log
         /\ last_alert_time' = check_alerts(loc.data, now, "ok").last]_vars

\* ---- C11 -----------------------------------------------------------------
\* the update handler has just logged that its input was invalid
F1Rejected ==
    /\ engine = "loadf1"
    /\ Len(f1'.alert_history) = Len(f1.alert_history) + 1
    /\ Last(f1'.alert_history).kind \in {"invalid_thresholds", "invalid_tariff"}

\* C11: an update of the thresholds or of the tariff rates that is rejected
\* because an input is invalid leaves every threshold and every tariff rate
\* with its prior value.
C11_RejectedUpdateKeepsValues ==
    [][F1Rejected =>
          /\ f1'.voltage_threshold = f1.voltage_threshold
          /\ f1'.current_threshold = f1.current_threshold
          /\ f1'.power_threshold = f1.power_threshold
          /\ f1'.energy_budget = f1.energy_budget
          /\ f1'.tariff_rates = f1.tariff_rates]_vars

\* ---- C12 -----------------------------------------------------------------
\* the last thing the program logged is that it loaded the configuration
JustLoaded ==
    \/ engine = "app" /\ alerts # << >> /\ Last(alerts).kind = "config_loaded"
    \/ /\ engine = "loadf1"
       /\ f1.alert_history # << >>
       /\ Last(f1.alert_history).kind = "config_loaded"

LoadedThresholds ==
    IF engine = "app"
    THEN [voltage_threshold |-> voltage_threshold, energy_budget |-> energy_budget,
          current_threshold |-> current_threshold, power_threshold |-> power_threshold]
    ELSE [voltage_threshold |-> f1.voltage_threshold, energy_budget |-> f1.energy_budget,
          current_threshold |-> f1.current_threshold, power_threshold |-> f1.power_threshold]

\* C12: after load_config() the values lie within their documented ranges
\* whatever the file contains (voltage threshold in [200, 400], energy
\* budget in [100, 50000]), and a field missing from the file has its
\* default.
C12_LoadedConfigInRange ==
    JustLoaded =>
        /\ LoadedThresholds.voltage_threshold \in 200..400
        /\ LoadedThresholds.energy_budget \in 100..50000
        /\ "current_threshold" \notin DOMAIN config_file.members
              => LoadedThresholds.current_threshold = 150
        /\ "power_threshold" \notin DOMAIN config_file.members
              => LoadedThresholds.power_threshold = 30000
        /\ "energy_budget" \notin DOMAIN config_file.members
              => LoadedThresholds.energy_budget = 1000

\* ---- C13 -----------------------------------------------------------------
\* the kind of the newest entry of an alert history ("" when it is empty)
LastKind(hist) == IF hist = << >> THEN "" ELSE Last(hist).kind

\* the program's newest alert
NewestAlert == IF engine = "app" THEN LastKind(alerts) ELSE LastKind(f1.alert_history)

\* this step is load_config(): a handler that logs the load, its failure, or
\* (no file) nothing
LoadStep ==
    \/ /\ engine = "app"
       /\ nops' = nops + 1
       /\ alerts' = alerts \/ LastKind(alerts') \in {"config_loaded", "load_failed"}
    \/ /\ engine = "loadf1"
       /\ f1'.nops = f1.nops + 1
       /\ \/ f1'.alert_history = f1.alert_history
          \/ LastKind(f1'.alert_history) \in {"config_loaded", "load_failed"}

\* the step leaves the whole configuration as it was
ConfigKept ==
    /\ Settings' = Settings
    /\ f1'.voltage_threshold = f1.voltage_threshold
    /\ f1'.current_threshold = f1.current_threshold
    /\ f1'.power_threshold = f1.power_threshold
    /\ f1'.energy_budget = f1.energy_budget
    /\ f1'.tariff_rates = f1.tariff_rates
    /\ f1'.load_profiles = f1.load_profiles
    /\ f1'.logging_var = f1.logging_var
    /\ f1'.alert_sound_var = f1.alert_sound_var
    /\ f1'.voice_alerts_var = f1.voice_alerts_var

AppClearStep == engine = "app" /\ ui.pc = "idle" /\ ui'.pc = "clear"
F1ClearStep ==
    /\ engine = "loadf1"
    /\ f1'.nops = f1.nops + 1
    /\ LastKind(f1'.alert_history) = "data_cleared"

\* a loadf1.py buffer at its baseline: empty, or the zeros of __init__
F1Baseline(q) == q = << >> \/ q = Fill(0, MAX_DATA_POINTS)

\* C14: clear_data() leaves the running flag, the monitoring flag and the
\* ticker thread untouched while it resets the history buffers to their
\* baseline and the cumulative energy to 0.
C14_ClearDataFrame ==
    [][/\ AppClearStep =>
            /\ UNCHANGED <<running, monitoring, stop_event, data_thread>>
            /\ voltage_data' = Fill(230, MAX_DATA_POINTS)
            /\ current_data' = Fill(50, MAX_DATA_POINTS)
            /\ power_data' = Fill(11500, MAX_DATA_POINTS)
            /\ energy_data' = Fill(0, MAX_DATA_POINTS)
            /\ energy_consumption' = 0
       /\ F1ClearStep =>
            /\ f1'.running = f1.running
            /\ f1'.threads = f1.threads
            /\ F1Baseline(f1'.voltage_data)
            /\ F1Baseline(f1'.current_data)
            /\ F1Baseline(f1'.power_data)
            /\ F1Baseline(f1'.energy_data)
            /\ f1'.energy_consumption = 0]_vars

\* ---- C15 -----------------------------------------------------------------
\* no logging operation is under way
AlertLogQuiet == engine = "app" => ui.pc = "idle" /\ data_thread = "alerts"

\* the count entries of the given kind logged so far are all in the history,
\* in the order they were logged
AllKept(hist, kind, count) ==
    LET at == {j \in 1..Len(hist) : hist[j].kind = kind}
    IN  /\ \A i \in 1..count : \E j \in at : hist[j].n = i
        /\ \A j, k \in at : j < k => hist[j].n < hist[k].n

\* C15: after any logging operation, from either thread, the alert history
\* holds at most 200 entries, and they are the newest ones in order (here:
\* every entry logged since the start is still there, in logging order).
C15_AlertHistoryBounded ==
    AlertLogQuiet =>
        /\ Len(alerts) <= ALERT_LIMIT
        /\ Len(f1.alert_history) <= ALERT_LIMIT
        /\ engine = "app" =>
              /\ AllKept(alerts, "ui", nops)
              /\ AllKept(alerts, "tick", nticks)

F1Kinds == {f1.alert_history[i].kind : i \in 1..Len(f1.alert_history)}

\* check_alerts has run on the reading
AppEvaluated == engine = "app" /\ nticks >= 1
F1Evaluated == engine = "loadf1" /\ f1.threads[1] = "sleep"

\* C17: the high-voltage rule is strict: a voltage equal to the threshold
\* never fires it, a voltage above the threshold (by the smallest step)
\* fires it at the first evaluation, when the kind is not in cooldown.
C17_HighVoltageStrict ==
    /\ AppEvaluated =>
          /\ latest_data.voltage = voltage_threshold => Firings("high_voltage") = {}
          /\ latest_data.voltage > voltage_threshold =>
                \E i \in Firings("high_voltage") : alerts[i].t = UNITS_PER_SECOND
    /\ F1Evaluated =>
          /\ f1.tl[1].data.voltage = f1.voltage_threshold => "high_voltage" \notin F1Kinds
          /\ f1.tl[1].data.voltage > f1.voltage_threshold => "high_voltage" \in F1Kinds

\* a reading exactly at the threshold has been evaluated for twelve seconds,
\* across a whole cooldown, and the high-voltage rule has not fired
C17_Witness ==
    /\ AppEvaluated
    /\ now >= 12 * UNITS_PER_SECOND
    /\ latest_data.voltage = voltage_threshold
    /\ Firings("high_voltage") = {}

\* ---- C20 -----------------------------------------------------------------
\* C20: with an energy budget of 0 or less the usage fraction is 0, so
\* neither the budget warning nor the budget-exceeded alert fires.
C20_NoBudgetAlertWithoutBudget ==
    /\ (engine = "app" /\ energy_budget <= 0) =>
          Firings("budget_warning") \cup Firings("budget_exceeded") = {}
    /\ (engine = "loadf1" /\ f1.energy_budget <= 0) =>
          F1Kinds \cap {"budget_warning", "budget_exceeded"} = {}

\* ---- C18 -----------------------------------------------------------------
\* C18: with the power held at 11500 W over ticks whose elapsed time sums to
\* exactly 3600 seconds, the energy ends at 11.5 kWh (to within the energy
\* of one tick).
C18_HourOfConstantPower ==
    (now = HourUnits /\ data_thread = "sleep" /\ loc.power = 11500) =>
        /\ energy_consumption >= (115 * UNITS_PER_KWH) \div 10 - 11500
        /\ energy_consumption <= (115 * UNITS_PER_KWH) \div 10 + 11500

\* ---- C19 -----------------------------------------------------------------
\* C19: the energy a tick adds is computed from the time that has actually
\* elapsed since the previous tick (power x elapsed time), not from the
\* nominal UPDATE_INTERVAL.
C19_EnergyFromElapsedTime ==
    [][data_thread = "energy_write" =>
          energy_consumption' - energy_consumption = loc.power * (now - loc.last_tick)]_vars

\* ------------------------------------------------------------------------
\* app.py, loadf1.py: the tariff band of the hour and the cost shown
\* ------------------------------------------------------------------------
\* datetime.datetime.now().hour
current_hour(t) == (t \div HourUnits) % 24

\* a band test whose peak band also takes in 20:00
tariff_period_inclusive(h) ==
    IF 8 <= h /\ h <= 20 THEN "peak"
    ELSE IF 0 <= h /\ h < 6 THEN "off_peak"
    ELSE "shoulder"

\* the if / elif / else over current_hour
tariff_period(h) ==
    IF 8 <= h /\ h < 20 THEN "peak"
    ELSE IF 0 <= h /\ h < 6 THEN "off_peak"
    ELSE "shoulder"

\* rate = self.tariff_rates[...]; cost = self.energy_consumption * rate
cost_display(t, rates, energy) ==
    LET period == tariff_period(current_hour(t))
        rate == rates[period]
    IN [shown |-> TRUE, hour |-> current_hour(t), period |-> period,
        rate |-> rate, cost |-> energy * rate]

\* the rates and the energy on show, and where in the hour the clock stands
ScenarioTariffs == {DefaultTariff, [peak |-> 600, off_peak |-> 400, shoulder |-> 500]}
ScenarioEnergies == {0, 11500, 720000}
HourOffsets == {0, HourUnits - 1}
HoursOfDay == 0..23

TariffInit ==
    /\ engine \in {"app", "loadf1"}
    /\ monitoring = FALSE
    /\ running = FALSE
    /\ stop_event = FALSE
    /\ data_thread = "none"
    /\ loc = IdleLoc
    /\ load_profiles = DefaultProfiles
    /\ voltage_data = Fill(220, MAX_DATA_POINTS)
    /\ current_data = Fill(50, MAX_DATA_POINTS)
    /\ power_data = Fill(11000, MAX_DATA_POINTS)
    /\ energy_data = Fill(0, MAX_DATA_POINTS)
    /\ \E e \in ScenarioEnergies, r \in ScenarioTariffs :
         /\ energy_consumption = IF engine = "app" THEN e ELSE 0
         /\ tariff_rates = IF engine = "app" THEN r ELSE DefaultTariff
         /\ f1 = IF engine = "loadf1"
                 THEN [F1Init EXCEPT !.energy_consumption = e,
                                     !.tariff_rates = r, !.after = 1]
                 ELSE F1Init
    /\ latest_data = [voltage |-> 220, current |-> 50, power |-> 11000]
    /\ data_update_counter = 0
    /\ alerts = << >>
    /\ last_alert_time = [k \in {} |-> 0]
    /\ alert_cooldown = 10
    /\ voltage_threshold = 250
    /\ current_threshold = 150
    /\ power_threshold = 30000
    /\ energy_budget = 1000
    /\ logging_enabled = TRUE
    /\ alert_sounds = TRUE
    /\ voice_alerts = FALSE
    /\ \E h \in HoursOfDay, o \in HourOffsets : now = h * HourUnits + o
    /\ ui = IdleUi
    /\ view = [shown |-> FALSE]
    /\ nticks = 0
    /\ nops = 0
    /\ l6 = L6Init
    /\ session = LoggedIn
    /\ l17 = L17Init
    /\ config_file = NoFile

tariffFrame == <<flagVars, data_thread, loc, load_profiles, bufferVars,
                 energy_consumption, latest_data, data_update_counter, alerts,
                 last_alert_time, configVars, ui, nticks, engine, l6, session, l17,
                 config_file>>

\* an hour goes by on the wall clock
TariffClock ==
    /\ nops < MaxOps
    /\ now' = (now + HourUnits) % (24 * HourUnits)
    /\ nops' = nops + 1
    /\ UNCHANGED <<tariffFrame, view, f1>>

\* app.py create_monitoring_tab: "Calculate current rate and cost"
TariffRender ==
    /\ engine = "app"
    /\ view' = cost_display(now, tariff_rates, energy_consumption)
    /\ UNCHANGED <<tariffFrame, now, nops, f1>>

\* loadf1.py update_ui: "Update cost"
F1TariffUpdateUi ==
    /\ engine = "loadf1"
    /\ f1.after > 0
    /\ view' = cost_display(now, f1.tariff_rates, f1.energy_consumption)
    /\ f1' = [f1 EXCEPT !.energy_data = DequeAppend(@, f1.energy_consumption),
                        !.after = 0]
    /\ UNCHANGED <<tariffFrame, now, nops>>

\* Tk runs the update_ui a tick queued with root.after(0, ...)
F1TariffQueued ==
    /\ engine = "loadf1"
    /\ f1.after = 0
    /\ nops < MaxOps
    /\ f1' = [f1 EXCEPT !.after = 1]
    /\ nops' = nops + 1
    /\ UNCHANGED <<tariffFrame, now, view>>

TariffNext == TariffClock \/ TariffRender \/ F1TariffUpdateUi \/ F1TariffQueued

SpecTariff == TariffInit /\ [][TariffNext]_vars

\* ---- C21 -----------------------------------------------------------------
\* C21: for an hour of day h in 0..23 the rate shown is the peak rate iff
\* 8 <= h < 20, the off-peak rate iff 0 <= h < 6 and the shoulder rate
\* otherwise; every hour selects exactly one band, and the cost shown is the
\* cumulative energy times that band's rate.
ShownRates == IF engine = "app" THEN tariff_rates ELSE f1.tariff_rates
ShownEnergy == IF engine = "app" THEN energy_consumption ELSE f1.energy_consumption
RenderedNow == view.shown /\ view.hour = current_hour(now)
                /\ (engine = "loadf1" => f1.after = 0)

C21_TariffBandOfHour ==
    RenderedNow =>
        /\ view.hour \in HoursOfDay
        /\ (view.period = "peak") <=> (8 <= view.hour /\ view.hour < 20)
        /\ (view.period = "off_peak") <=> (0 <= view.hour /\ view.hour < 6)
        /\ (view.period = "shoulder") <=>
              ~(8 <= view.hour /\ view.hour < 20) /\ ~(0 <= view.hour /\ view.hour < 6)
        /\ Cardinality({p \in {"peak", "off_peak", "shoulder"} : view.period = p}) = 1
        /\ view.rate = ShownRates[view.period]
        /\ view.cost = ShownEnergy * view.rate

\* the last half second before 20:00 and the first of 20:00 are both shown,
\* one in each band
C21_Witness ==
    /\ view.shown
    /\ view.hour = 20
    /\ view.period = "shoulder"
    /\ view.rate # ShownRates["peak"]
    /\ view.cost > 0

\* ---- C22 -----------------------------------------------------------------
\* the share of the budget used: 0 for a budget of 0 or less, else
\* energy / budget, placed below 90 %, from 90 % up to 100 %, or at 100 % and
\* above
UsageTier(energy, budget) ==
    IF budget <= 0 THEN "below"
    ELSE IF energy \div UNITS_PER_KWH >= budget THEN "exceeded"
    ELSE IF energy \div (9 * (UNITS_PER_KWH \div 10)) >= budget THEN "warning"
    ELSE "below"

\* the budget kinds an evaluation may log in each tier
TierKinds(tier) ==
    CASE tier = "exceeded" -> {"budget_exceeded"}
      [] tier = "warning"  -> {"budget_warning"}
      [] tier = "below"    -> {}

BudgetKinds == {"budget_exceeded", "budget_warning"}

\* the budget entries (kind and level) the evaluation of this step logs
AppNewBudget ==
    {<<alerts'[i].kind, alerts'[i].level>> :
        i \in {j \in Len(alerts) + 1..Len(alerts') : alerts'[j].kind \in BudgetKinds}}
F1NewBudget ==
    {<<f1'.alert_history[i].kind, f1'.alert_history[i].level>> :
        i \in {j \in Len(f1.alert_history) + 1..Len(f1'.alert_history) :
                  f1'.alert_history[j].kind \in BudgetKinds}}

BudgetEntries(tier) == {<<k, Severity(k)>> : k \in TierKinds(tier)}

\* C22: in one evaluation the budget rules are tiered and mutually
\* exclusive: at 100 % of the budget or more only BudgetExceeded (error) is
\* considered, from 90 % up to 100 % only BudgetWarning (warning), below
\* 90 % neither; the two never fire in the same tick.
C22_BudgetTiers ==
    [][/\ (engine = "app" /\ nticks' = nticks + 1) =>
             AppNewBudget \subseteq BudgetEntries(UsageTier(energy_consumption, energy_budget))
       /\ (engine = "loadf1" /\ f1.threads[1] = "finish" /\ f1'.threads[1] = "sleep") =>
             F1NewBudget \subseteq
                 BudgetEntries(UsageTier(f1.energy_consumption, f1.energy_budget))]_vars

\* the same, for budgets above zero only
BudgetTiersPositive ==
    [][/\ (engine = "app" /\ nticks' = nticks + 1 /\ energy_budget > 0) =>
             AppNewBudget \subseteq BudgetEntries(UsageTier(energy_consumption, energy_budget))
       /\ (engine = "loadf1" /\ f1.threads[1] = "finish" /\ f1'.threads[1] = "sleep"
             /\ f1.energy_budget > 0) =>
             F1NewBudget \subseteq
                 BudgetEntries(UsageTier(f1.energy_consumption, f1.energy_budget))]_vars

\* ------------------------------------------------------------------------
\* app.py: check_alerts once per second on readings that change
\* ------------------------------------------------------------------------
\* readings with the voltage below its threshold, and with the voltage, the
\* current, or all of voltage, current and power above theirs
ChangingReadings ==
    { [voltage |-> 195, current |-> 135, power |-> 28888],
      [voltage |-> 260, current |-> 135, power |-> 28888],
      [voltage |-> 230, current |-> 155, power |-> 28888],
      [voltage |-> 260, current |-> 155, power |-> 33000] }

\* how long the readings are followed, in seconds
ChangingSeconds == 7

\* the next tick generates another reading
NewReading ==
    /\ nops < MaxOps
    /\ \E r \in ChangingReadings : r # latest_data /\ latest_data' = r
    /\ nops' = nops + 1
    /\ UNCHANGED <<flagVars, data_thread, loc, load_profiles, bufferVars,
                   energy_consumption, data_update_counter, alerts,
                   last_alert_time, configVars, now, ui, view, nticks>>

ChangingNext ==
    \/ now < ChangingSeconds * UNITS_PER_SECOND /\ Evaluate
    \/ NewReading

SpecChanging ==
    CooldownInit /\ [][ChangingNext /\ UNCHANGED <<engine, f1, l6, session, l17, config_file>>]_vars

\* ---- one evaluation, as seen in a step ------------------------------------
EvaluationStep == engine = "app" /\ nticks' = nticks + 1
NewLog == SubSeq(alerts', Len(alerts) + 1, Len(alerts'))
FiredNow(k) == \E i \in 1..Len(NewLog) : NewLog[i].kind = k /\ NewLog[i].t = now'
RuleIndex(k) == CHOOSE i \in 1..Len(RuleOrder) : RuleOrder[i] = k
\* check_alerts was left by an exception (the loop logs it as a system error)
EvaluationRaised == \E i \in 1..Len(NewLog) : NewLog[i].kind = "system_error"
\* the kind whose trigger_alert raised: the last one logged before the error
RaisingKind == NewLog[Len(NewLog) - 1].kind
\* check_alerts got as far as the rule of kind k
Reached(k) == ~EvaluationRaised \/ RuleIndex(k) <= RuleIndex(RaisingKind)

\* ---- C23 -----------------------------------------------------------------
\* C23: the first evaluation of an alert kind whose condition holds always
\* fires, whatever the cooldown, and records that time as the kind's last
\* firing time; the kind's entry is created only then and is never removed.
C23_FirstEvaluationFires ==
    [][/\ DOMAIN last_alert_time \subseteq DOMAIN last_alert_time'
       /\ ~EvaluationStep => DOMAIN last_alert_time' = DOMAIN last_alert_time
       /\ EvaluationStep =>
            \A k \in AlertKinds :
               /\ (k \notin DOMAIN last_alert_time /\ RuleCond(k, latest_data)
                      /\ Reached(k)) =>
                     /\ FiredNow(k)
                     /\ k \in DOMAIN last_alert_time'
                     /\ last_alert_time'[k] = now'
               /\ (k \in DOMAIN last_alert_time' /\ k \notin DOMAIN last_alert_time) =>
                     RuleCond(k, latest_data) /\ FiredNow(k)]_vars

\* a kind first evaluated at the third second, inside the cooldown that
\* another kind is already serving, has fired then
C23_Witness ==
    /\ engine = "app"
    /\ alert_cooldown = 10
    /\ "high_voltage" \in DOMAIN last_alert_time
    /\ last_alert_time["high_voltage"] = 1 * UNITS_PER_SECOND
    /\ "high_current" \in DOMAIN last_alert_time
    /\ last_alert_time["high_current"] = 3 * UNITS_PER_SECOND
    /\ \E i \in Firings("high_current") : alerts[i].t = 3 * UNITS_PER_SECOND
    /\ "high_power" \notin DOMAIN last_alert_time

\* ---- C24 -----------------------------------------------------------------
ThresholdKinds == {"high_voltage", "high_current", "high_power"}
OutOfCooldown(k) ==
    \/ k \notin DOMAIN last_alert_time
    \/ now' - last_alert_time[k] >= alert_cooldown * UNITS_PER_SECOND
\* every kind fires when its own gate lets it, and only its own time moves
GatedIndependently ==
    /\ ThresholdKinds \subseteq ViolatedKinds(latest_data) =>
          \A k \in ThresholdKinds : OutOfCooldown(k) => FiredNow(k)
    /\ \A k \in AlertKinds :
          /\ (k \in DOMAIN last_alert_time /\ ~FiredNow(k)) =>
                last_alert_time'[k] = last_alert_time[k]
          /\ FiredNow(k) => last_alert_time'[k] = now'

\* C24: alert kinds are gated independently: in a tick where voltage,
\* current and power all exceed their thresholds, each of the three kinds
\* that is out of its own cooldown fires in that same tick, and the firing or
\* suppression of one kind never changes the last firing time of another.
C24_KindsGatedIndependently ==
    [][EvaluationStep => GatedIndependently]_vars

\* the same over the evaluations that no playback failure cut short
GatedIndependentlyDelivered ==
    [][(EvaluationStep /\ ~EvaluationRaised) => GatedIndependently]_vars

\* ---- C25 -----------------------------------------------------------------
\* the positions of a tick of app.py at which its check_alerts is still to come
AlertsAhead == {"sim", "append", "energy_read", "energy_write", "publish",
                "log", "alerts"}
\* the step that sets st.session_state.latest_data to the tick's reading
PublishStep == engine = "app" /\ data_update_counter' # data_update_counter

\* C25: every tick goes generate, push to buffers, integrate energy,
\* evaluate alerts, publish: the reading of a tick is never published to the
\* UI state before that tick's alerts have been evaluated.
C25_AlertsBeforePublish ==
    [][PublishStep => data_thread \notin AlertsAhead]_vars

\* the first steps do come in the order generate, push, integrate, and the
\* alerts are evaluated last
TickOrderOtherwise ==
    [][(engine = "app" /\ data_thread \in TickSteps /\ data_thread' \in TickSteps
          /\ data_thread' # data_thread) =>
         <<data_thread, data_thread'>> \in
            {<<"sim", "sim">>, <<"sim", "append">>, <<"append", "energy_read">>,
             <<"energy_read", "energy_write">>, <<"energy_write", "publish">>,
             <<"publish", "log">>, <<"log", "alerts">>}]_vars

\* ------------------------------------------------------------------------
\* loadf1.py: ticks while no load is switched on
\* ------------------------------------------------------------------------
\* random.uniform(-10, 10) plus the spike or drop of random.uniform(-50, 50):
\* the ends of the range
IdleVoltageDraws == {-60, 60}
\* random.uniform(5.0, 10.0)
IdleBackgrounds == {5, 10}
\* the measurement error of random.uniform(-0.1, 0.1) * total_power, in percent
PowerErrors == {-10, 10}

\* a simulation that leaves out the background load
simulate_without_background(profiles, vvar, background_current, err) ==
    LET r == F1Reading(profiles, vvar, 0)
    IN  [r EXCEPT !.power = Max(0, Min(200000, (r.power * (100 + err)) \div 100))]

\* simulate_realistic_data: the loads, the background load, the measurement
\* error on the total power, then the bounds
simulate_realistic_data(profiles, vvar, background_current, err) ==
    LET Sum[i \in 0..Len(LoadOrder)] ==
            IF i = 0 THEN [c |-> 0, p |-> 0]
            ELSE LET ld == profiles[LoadOrder[i]]
                 IN  IF ld.active
                     THEN [c |-> Sum[i - 1].c + ld.current,
                           p |-> Sum[i - 1].p
                                   + (BASE_VOLTAGE + vvar) * ld.current * ld.power_factor]
                     ELSE Sum[i - 1]
        tc == Sum[Len(LoadOrder)].c + background_current
        tp == Sum[Len(LoadOrder)].p
                + (BASE_VOLTAGE + vvar) * background_current * F1_BACKGROUND_PF
        te == tp + (tp * err) \div 100
    IN  [voltage |-> Max(150, Min(280, BASE_VOLTAGE + vvar)),
         current |-> Max(0, Min(800, tc)),
         power   |-> Max(0, Min(200000, (te + 50) \div 100))]

NoLoadActive(profiles) == \A l \in Loads : ~profiles[l].active

\* the load table after emergency_shutdown
AllSwitchedOff == [l \in Loads |-> [DefaultProfiles[l] EXCEPT !.active = FALSE]]

IdleInit ==
    /\ AppInit
    /\ engine = "loadf1"
    /\ \E p \in {DefaultProfiles, AllSwitchedOff} :
         f1 = [F1Init EXCEPT !.running = TRUE, !.start_btn = FALSE, !.stop_btn = TRUE,
                             !.load_profiles = p, !.threads[1] = "while"]
    /\ l6 = L6Init
    /\ session = LoggedIn
    /\ l17 = L17Init
    /\ config_file = NoFile

\* the first part of the loop body, as in F1Simulate, with the draws of the
\* simulation taken from the ends of their ranges
F1IdleSimulate(t) ==
    /\ f1.threads[t] = "tick"
    /\ f1.nticks < MaxTicks
    /\ \E vv \in IdleVoltageDraws, bg \in IdleBackgrounds, err \in PowerErrors :
         LET data == simulate_realistic_data(f1.load_profiles, vv, bg, err)
         IN  f1' = [f1 EXCEPT !.threads[t] = "energy_write",
                              !.tl[t] = [data |-> data, e |-> f1.energy_consumption,
                                         idle |-> NoLoadActive(f1.load_profiles)],
                              !.voltage_data = DequeAppend(@, data.voltage),
                              !.current_data = DequeAppend(@, data.current),
                              !.power_data = DequeAppend(@, data.power),
                              !.nticks = @ + 1]

IdleNext ==
    /\ \/ f1.nops < MaxOps /\ F1ToggleLoad
       \/ F1While(1) \/ F1IdleSimulate(1) \/ F1EnergyWrite(1) \/ F1Finish(1)
    /\ UNCHANGED <<appVars, engine, l6, session, l17, config_file>>

SpecIdle == IdleInit /\ [][IdleNext]_vars

\* ---- C26 -----------------------------------------------------------------
\* the kinds the evaluation of this step logs
F1NewKinds ==
    {f1'.alert_history[i].kind :
        i \in Len(f1.alert_history) + 1..Len(f1'.alert_history)}
\* thread 1 ends a tick that ran from its simulation to its check_alerts
\* with no load switched on
IdleTickEnds ==
    /\ engine = "loadf1"
    /\ f1.threads[1] = "finish" /\ f1'.threads[1] = "sleep"
    /\ f1.tl[1].idle
    /\ NoLoadActive(f1.load_profiles)

\* C26: in a tick where no load profile is active the low-current and the
\* low-power alert never fire, and the generated reading has current > 0 and
\* power > 0, coming from the background draw alone.
C26_IdleTickQuiet ==
    [][IdleTickEnds =>
          /\ F1NewKinds \cap {"low_current", "low_power"} = {}
          /\ f1.tl[1].data.current > 0
          /\ f1.tl[1].data.power > 0
          /\ f1.tl[1].data.current \in IdleBackgrounds]_vars

\* the smallest reading of an idle tick: 170 V, 5 A, the power read 10 % low
C26_Witness ==
    /\ engine = "loadf1"
    /\ f1.threads[1] = "sleep"
    /\ NoLoadActive(f1.load_profiles)
    /\ f1.tl[1].idle
    /\ f1.tl[1].data.current = 5
    /\ f1.tl[1].data.power = 689
    /\ f1.nops = 0
    /\ F1Kinds = {"low_voltage"}

\* ------------------------------------------------------------------------
\* app.py: stop and start again while the data thread of the first start
\* is still there
\* ------------------------------------------------------------------------
\* the engine as start_monitoring leaves it: flags set, thread started
RestartInit ==
    /\ engine = "app"
    /\ monitoring = TRUE
    /\ running = TRUE
    /\ stop_event = FALSE
    /\ data_thread = "while"
    /\ loc = IdleLoc
    /\ load_profiles = DefaultProfiles
    /\ voltage_data = Fill(220, MAX_DATA_POINTS)
    /\ current_data = Fill(50, MAX_DATA_POINTS)
    /\ power_data = Fill(11000, MAX_DATA_POINTS)
    /\ energy_data = Fill(0, MAX_DATA_POINTS)
    /\ energy_consumption = 0
    /\ latest_data = [voltage |-> 220, current |-> 50, power |-> 11000]
    /\ data_update_counter = 0
    /\ alerts = log_alert(<< >>, Entry(0, "info", "monitoring_started", 0))
    /\ last_alert_time = [k \in {} |-> 0]
    /\ alert_cooldown = 10
    /\ voltage_threshold = 250
    /\ current_threshold = 150
    /\ power_threshold = 30000
    /\ energy_budget = 1000
    /\ logging_enabled = TRUE
    /\ alert_sounds = TRUE
    /\ voice_alerts = FALSE
    /\ tariff_rates = DefaultTariff
    /\ now = 0
    /\ ui = IdleUi
    /\ view = [latest |-> [voltage |-> 220, current |-> 50, power |-> 11000],
               energy |-> 0, v |-> 220, c |-> 50, p |-> 11000, e |-> 0]
    /\ nticks = 0
    /\ nops = 0
    /\ f1 = F1Init
    /\ l6 = L6Init
    /\ session = LoggedIn
    /\ l17 = L17Init
    /\ config_file = NoFile

RestartNext ==
    /\ \/ DataThread
       \/ StartMonitoring \/ StopMonitoring \/ StopJoin
    /\ UNCHANGED <<engine, f1, l6, session, l17, config_file>>

SpecRestart == RestartInit /\ [][RestartNext]_vars

\* ---- C27 -----------------------------------------------------------------
\* the data thread is inside the while loop of _data_collection_loop_wrapper
ExecutingLoop == data_thread \notin {"none", "exited", "dead"}

\* C27: in app.py, whenever start_monitoring() has completed and the
\* monitoring flag is True, a data-collection thread is executing the loop
\* (so that a tick eventually occurs); also when the start follows a stop
\* whose join timed out or whose thread had left its loop but was still alive.
C27_MonitoringHasThread ==
    (engine = "app" /\ monitoring /\ ui.pc = "idle") => ExecutingLoop

\* the same for a start that finds no thread, a dead one, or one that is
\* still inside its loop
StartFindsLoopOrNone ==
    [][(engine = "app" /\ ~monitoring /\ monitoring' /\ data_thread # "exited") =>
          data_thread' \notin {"none", "exited", "dead"}]_vars

\* ---- C28 -----------------------------------------------------------------
\* the tick's write of energy_consumption, after a clear_data has reset the
\* energy since the tick read it
WriteAfterClear ==
    /\ engine = "app"
    /\ data_thread = "energy_write" /\ data_thread' = "publish"
    /\ loc.e # cleared_energy
    /\ energy_consumption = cleared_energy

\* C28: in app.py a clear_data() that interleaves with a tick is never undone
\* by the tick's read-add-write of energy_consumption: afterwards
\* energy_consumption is at most that single tick's increment and the energy
\* buffer holds no value from before the clear.
C28_ClearNotUndone ==
    [][WriteAfterClear =>
          /\ energy_consumption' <= energy_this_interval(loc.data.power)
          /\ \A i \in 1..Len(energy_data') :
                energy_data'[i] <= energy_this_interval(loc.data.power)]_vars

\* ------------------------------------------------------------------------
\* app.py: the login page
\* ------------------------------------------------------------------------
LOCKOUT_SECONDS == 300
MAX_ATTEMPTS == 3
\* calls of authenticate followed
MaxLogins == 5
\* what is typed into the login form
Credentials == {<<"admin", "password">>, <<"admin", "letmein">>,
                <<"guest", "password">>}
\* the time between two submissions, in units of UPDATE_INTERVAL: half a
\* second, half a second less than the lockout, the lockout
LoginWaits == {1, LOCKOUT_SECONDS * UNITS_PER_SECOND - 1,
               LOCKOUT_SECONDS * UNITS_PER_SECOND}

\* an authenticate that looks at the credentials before the lockout
authenticate_lenient(s, username, password, t) ==
    IF username = "admin" /\ password = "password"
    THEN [s EXCEPT !.authenticated = TRUE, !.login_attempts = 0,
                   !.returned = TRUE, !.calls = @ + 1]
    ELSE [s EXCEPT !.login_attempts = Min(MAX_ATTEMPTS, @ + 1),
                   !.locked_out = s.locked_out \/ s.login_attempts + 1 >= MAX_ATTEMPTS,
                   !.lockout_time = IF ~s.locked_out /\ s.login_attempts + 1 >= MAX_ATTEMPTS
                                    THEN t ELSE @,
                   !.returned = FALSE, !.calls = @ + 1]

\* authenticate(username, password) at time t
authenticate(s, username, password, t) ==
    IF s.locked_out /\ t - s.lockout_time < LOCKOUT_SECONDS * UNITS_PER_SECOND
    THEN [s EXCEPT !.returned = FALSE, !.calls = @ + 1]
    ELSE LET u == IF s.locked_out
                  THEN [s EXCEPT !.locked_out = FALSE, !.login_attempts = 0]
                  ELSE s
         IN  IF username = "admin" /\ password = "password"
             THEN [u EXCEPT !.authenticated = TRUE, !.login_attempts = 0,
                            !.returned = TRUE, !.calls = @ + 1]
             ELSE IF u.login_attempts + 1 >= MAX_ATTEMPTS
                  THEN [u EXCEPT !.login_attempts = @ + 1, !.locked_out = TRUE,
                                 !.lockout_time = t,
                                 !.returned = FALSE, !.calls = @ + 1]
                  ELSE [u EXCEPT !.login_attempts = @ + 1,
                                 !.returned = FALSE, !.calls = @ + 1]

LoginInit ==
    /\ AppInit
    /\ engine = "app"
    /\ f1 = F1Init
    /\ l6 = L6Init
    /\ config_file = NoFile
    /\ session = FreshSession
    /\ l17 = L17Init

loginFrame == <<flagVars, data_thread, loc, load_profiles, bufferVars,
                energy_consumption, latest_data, data_update_counter, alerts,
                last_alert_time, configVars, ui, view, nticks, engine, f1, l6,
                config_file, l17>>

\* create_login_page: the form is submitted (shown while not authenticated)
LoginSubmit ==
    /\ ~session.authenticated
    /\ session.calls < MaxLogins
    /\ \E c \in Credentials : session' = authenticate(session, c[1], c[2], now)
    /\ UNCHANGED <<loginFrame, now, nops>>

\* the Logout button of the main interface (monitoring is off)
Logout ==
    /\ session.authenticated
    /\ session' = [session EXCEPT !.authenticated = FALSE]
    /\ UNCHANGED <<loginFrame, now, nops>>

\* time passes before the next submission
LoginWait ==
    /\ nops < MaxOps
    /\ \E d \in LoginWaits : now' = now + d
    /\ nops' = nops + 1
    /\ UNCHANGED <<loginFrame, session>>

SpecLogin == LoginInit /\ [][LoginSubmit \/ Logout \/ LoginWait]_vars

\* ---- C29 -----------------------------------------------------------------
AuthenticateStep == session'.calls = session.calls + 1
LockedNow ==
    /\ session.locked_out
    /\ now - session.lockout_time < LOCKOUT_SECONDS * UNITS_PER_SECOND

\* C29: in app.py's authenticate, login_attempts never exceeds 3; after three
\* consecutive failed attempts the account is locked, and until 300 seconds
\* have passed since the lock every call, also one with the correct
\* credentials, returns False and changes neither authenticated nor
\* login_attempts; a successful login resets login_attempts to 0.
C29_LoginLockout ==
    [][/\ session.login_attempts <= 3 /\ session'.login_attempts <= 3
       /\ AuthenticateStep =>
            /\ (LockedNow /\ ~session.authenticated) =>
                  /\ ~session'.returned
                  /\ session'.authenticated = session.authenticated
                  /\ session'.login_attempts = session.login_attempts
            /\ (~LockedNow /\ ~session'.returned
                  /\ session.login_attempts = 2 /\ ~session.locked_out) =>
                  /\ session'.login_attempts = 3
                  /\ session'.locked_out
                  /\ session'.lockout_time = now
            /\ session'.login_attempts = 3 => session'.locked_out
            /\ session'.returned =>
                  session'.login_attempts = 0 /\ session'.authenticated]_vars

\* locked at time 0 after three failures; the correct credentials half a
\* second before the 300 s are over were turned away; at 300 s they log in
C29_Witness ==
    /\ session.authenticated
    /\ session.returned
    /\ session.calls = 5
    /\ session.login_attempts = 0
    /\ session.lockout_time = 0
    /\ now = LOCKOUT_SECONDS * UNITS_PER_SECOND

\* ------------------------------------------------------------------------
\* load17.py, load18(ieee_14_bus).py: replay of the dataset (Tk main thread;
\* simulate_ieee_data re-arms itself with root.after)
\* ------------------------------------------------------------------------
L17_VOLTAGE_THRESHOLD == 230
L17_CURRENT_THRESHOLD == 45
L17_POWER_THRESHOLD == 1000

\* check_alerts: the list of alerts is not empty, messagebox.showwarning is
\* called
has_alerts(data) ==
    \/ data.voltage > L17_VOLTAGE_THRESHOLD
    \/ data.current > L17_CURRENT_THRESHOLD
    \/ data.power > L17_POWER_THRESHOLD

\* the rest of simulate_ieee_data once check_alerts has returned: log_data
\* (the append, then the row written to energy_data.csv, where an exception
\* ends the callback), update_plots, root.after(1000, ...)
l17_finish(st, r, write_ok) ==
    [st EXCEPT !.data_log = Append(@, r),
               !.pending = IF write_ok THEN @ + 1 ELSE @]

\* simulate_ieee_data, up to the return of check_alerts or to the dialog
\* that check_alerts opens
simulate_ieee_data(st, write_ok) ==
    IF st.running /\ st.ieee_data # << >>
    THEN LET r == Head(st.ieee_data)
             s1 == [st EXCEPT !.ieee_data = Tail(@), !.shown = Append(@, r),
                              !.checked = Append(@, r)]
         IN  IF has_alerts(IEEE_DATA[r])
             THEN [s1 EXCEPT !.open = Append(@, r)]
             ELSE l17_finish(s1, r, write_ok)
    ELSE st

\* the buttons can be clicked while no dialog holds the grab
L17Cmd == engine = "load17" /\ l17.open = << >> /\ l17.nops < MaxCommands

\* start_monitoring (the Start button, while it is enabled)
L17StartMonitoring ==
    /\ L17Cmd
    /\ l17.start_button
    /\ \E write_ok \in BOOLEAN :
         l17' = simulate_ieee_data([l17 EXCEPT !.running = TRUE,
                                               !.start_button = FALSE,
                                               !.stop_button = TRUE,
                                               !.nops = @ + 1], write_ok)

\* stop_monitoring (the Stop button, while it is enabled)
L17StopMonitoring ==
    /\ L17Cmd
    /\ l17.stop_button
    /\ l17' = [l17 EXCEPT !.running = FALSE, !.start_button = TRUE,
                          !.stop_button = FALSE, !.nops = @ + 1]

\* Tk runs a callback armed with root.after(1000, self.simulate_ieee_data),
\* from mainloop or from the event loop of an open dialog
L17Timer ==
    /\ engine = "load17"
    /\ l17.pending > 0
    /\ \E write_ok \in BOOLEAN :
         l17' = simulate_ieee_data([l17 EXCEPT !.pending = @ - 1], write_ok)

\* the user closes the dialog on top: showwarning returns and the call of
\* simulate_ieee_data it belongs to goes on
L17Dismiss ==
    /\ engine = "load17"
    /\ l17.open # << >>
    /\ \E write_ok \in BOOLEAN :
         l17' = l17_finish([l17 EXCEPT !.open = SubSeq(@, 1, Len(@) - 1)],
                           l17.open[Len(l17.open)], write_ok)

ReplayInit ==
    /\ AppInit
    /\ engine = "load17"
    /\ f1 = F1Init
    /\ l6 = L6Init
    /\ config_file = NoFile
    /\ session = LoggedIn
    /\ l17 = L17Init

ReplayNext ==
    /\ L17StartMonitoring \/ L17StopMonitoring \/ L17Timer \/ L17Dismiss
    /\ UNCHANGED <<appVars, engine, f1, l6, config_file, session>>

SpecReplay == ReplayInit /\ [][ReplayNext]_vars

\* ---- C30 -----------------------------------------------------------------
Increasing(s) == \A i, j \in 1..Len(s) : i < j => s[i] < s[j]

\* C30: in the dataset-replay variants, across any sequence of start and
\* stop operations each dataset record is processed (displayed, checked,
\* logged) at most once and in list order, data_log grows by exactly one
\* entry per processed record, and after the last record is consumed no
\* further tick is scheduled (a callback that finds the list empty arms no
\* timer and processes nothing).
C30_ReplayOnceInOrder ==
    [][engine = "load17" =>
          /\ Increasing(l17'.shown)
          /\ Increasing(l17'.checked)
          /\ Increasing(l17'.data_log)
          /\ Len(l17'.data_log) + Len(l17'.open) = Len(l17'.shown)
          /\ Len(l17'.shown) + Len(l17'.ieee_data) = Len(IEEE_DATA)
          /\ (l17.ieee_data = << >> /\ l17.open = << >>) =>
                /\ l17'.pending <= l17.pending
                /\ l17'.data_log = l17.data_log]_vars

====
